---- MODULE Spec2Model ----
(***************************************************************************)
(* Model of the Booq Club bot (src/index.js, second program text, lines    *)
(* 953-2267): the rating-poll engine (endPoll, loadActivePolls, the !poll  *)
(* and !endpoll commands, the button interaction handler), the startup     *)
(* sequence of initializeBot, and the commands on the stored settings      *)
(* (!setpoint, !setmeeting, saveStorage).                                  *)
(*                                                                         *)
(* Every asynchronous function is cut at the awaits around its reads and   *)
(* writes of the store and its announcement, so that the segments of       *)
(* different handlers and timers interleave as they do on the Node.js      *)
(* event loop. An await that touches nothing shared (a fetch, a pin, a     *)
(* reply) stays in the segment before it.                                  *)
(*                                                                         *)
(* Ratings are kept in half-star units (1.0 star = 2, 1.5 stars = 3, ...,  *)
(* 5.0 stars = 10), so that the arithmetic of the tally stays integral.    *)
(* Time is counted in days.                                                *)
(***************************************************************************)
EXTENDS Integers, Sequences, FiniteSets, TLC

\* ---------------------------------------------------------------- bounds
MaxPolls == 1       \* poll messages ever sent
MaxTime == 3        \* days the clock advances
MaxVotes == 2       \* button interactions delivered
MaxEndCmds == 1     \* !endpoll commands delivered
MaxCrashes == 1     \* process crashes followed by a restart
MaxTasks == 2       \* endPoll invocations in flight at once
MaxInputs == 3      \* interactions, !endpoll commands and crashes together

MaxSetCmds == 3     \* commands on the settings delivered

\* ------------------------------------------------------ program constants
PollDays == 3
NaN == -1

Voters == {"u1", "u2"}
Channels == {"c1", "c2"}
Titles == {"", "book"}
PollIds == 1..MaxPolls

pollOptions ==
  << [label |-> "1 star", value |-> 2],
     [label |-> "1.5 stars", value |-> 3],
     [label |-> "2 stars", value |-> 4],
     [label |-> "2.5 stars", value |-> 5],
     [label |-> "3 stars", value |-> 6],
     [label |-> "3.5 stars", value |-> 7],
     [label |-> "4 stars", value |-> 8],
     [label |-> "4.5 stars", value |-> 9],
     [label |-> "5 stars", value |-> 10] >>

ScaleValues == {pollOptions[i].value : i \in DOMAIN pollOptions}
Labels == {pollOptions[i].label : i \in DOMAIN pollOptions}

\* The text after the last "_" of a button's customId, and what parseFloat
\* makes of it.
Numerals == {"1", "4.5", "7", "abc"}

parseFloat(s) ==
  CASE s = "1" -> 2
    [] s = "4.5" -> 9
    [] s = "7" -> 14
    [] OTHER -> NaN

\* customId.split('_'): the identifiers the gateway can deliver.
CustomIds ==
  {<<"poll", "ts", n>> : n \in Numerals}
    \cup {<<"poll", "ts", "1", "x">>, <<"role", "ts", "1">>}

startsWithPoll(parts) == Len(parts) >= 2 /\ parts[1] = "poll"

\* ------------------------------------------------------------- documents
NoVotes == << >>

NoDoc == [messageId |-> 0, channelId |-> "", title |-> "", endTime |-> 0,
          votes |-> NoVotes]

votesHas(votes, u) == u \in DOMAIN votes

votesSet(votes, u, val) ==
  [v \in (DOMAIN votes) \cup {u} |-> IF v = u THEN val ELSE votes[v]]

RECURSIVE SumVotes(_, _)
SumVotes(votes, S) ==
  IF S = {} THEN 0
  ELSE LET u == CHOOSE x \in S : TRUE
       IN votes[u] + SumVotes(votes, S \ {u})

\* The tally of endPoll: totalScore, totalVotes and the count per label; a
\* value that matches no option is counted in totalVotes and in no label.
Tally(votes) ==
  [totalVotes |-> Cardinality(DOMAIN votes),
   totalScore |-> SumVotes(votes, DOMAIN votes),
   results |-> [l \in Labels |->
      Cardinality({u \in DOMAIN votes :
         \E i \in DOMAIN pollOptions :
            pollOptions[i].value = votes[u] /\ pollOptions[i].label = l})]]

\* (totalScore / totalVotes).toFixed(2), in hundredths of a star, for a
\* score in half stars.
toFixed2(totalScore, totalVotes) ==
  (totalScore * 100 + totalVotes) \div (2 * totalVotes)

\* averageRating with the division made whatever totalVotes is: 0 / 0 is
\* NaN in JavaScript, and NaN.toFixed(2) is "NaN".
averageRatingNoGuard(t) ==
  IF t.totalVotes = 0
    THEN [cast |-> TRUE, hundredths |-> NaN]
    ELSE [cast |-> TRUE, hundredths |-> toFixed2(t.totalScore, t.totalVotes)]

\* The last line of the result: the average when totalVotes > 0, otherwise
\* "No votes were cast." (cast = FALSE) and no division.
averageRating(t) ==
  IF t.totalVotes > 0
    THEN [cast |-> TRUE, hundredths |-> toFixed2(t.totalScore, t.totalVotes)]
    ELSE [cast |-> FALSE, hundredths |-> 0]

\* ------------------------------------------------------------- settings
\* The arguments of !setpoint and !setmeeting, as split on white space.
PointArgs == {<< >>, <<"Chapter", "8">>, <<"Page", "150">>}

\* args.join(" ")
joinArgs(args) ==
  CASE args = <<"Chapter", "8">> -> "Chapter 8"
    [] args = <<"Page", "150">> -> "Page 150"
    [] OTHER -> ""

\* ------------------------------------------------------ dates and times
\* A DateTime in the zone DEFAULT_TIMEZONE: the year, the place of the day
\* in the year and the minute of the day; instants compare in this order.
DefaultHour == 19

ordinal(month, day) == (month - 1) * 31 + day

DT(year, ord, minutes) ==
  [isValid |-> TRUE, year |-> year, ord |-> ord, minutes |-> minutes]

\* DateTime.invalid("Could not parse date")
InvalidDT == [isValid |-> FALSE, year |-> 0, ord |-> 0, minutes |-> 0]

\* a < b on two valid DateTime values
before(a, b) ==
  \/ a.year < b.year
  \/ a.year = b.year /\ a.ord < b.ord
  \/ a.year = b.year /\ a.ord = b.ord /\ a.minutes < b.minutes

\* DateTime.now().setZone(DEFAULT_TIMEZONE) when the clock reads t: the
\* process was started at noon on 1 September 2026.
DateTimeNow(t) == DT(2026, ordinal(9, 1) + t, 12 * 60)

\* A text is the sequence of its tokens, as white space divides it. A token
\* is of one lexical class, named after the luxon format token that reads
\* it, and holds the numbers written in it (0 for what it does not name).
Tok(t, year, month, day, minutes) ==
  [t |-> t, year |-> year, month |-> month, day |-> day,
   minutes |-> minutes]

D15 == Tok("d", 0, 0, 15, 0)                        \* 15
D15Comma == Tok("d,", 0, 0, 15, 0)                  \* 15,
December == Tok("MMMM", 0, 12, 0, 0)
June == Tok("MMMM", 0, 6, 0, 0)
Dec == Tok("MMM", 0, 12, 0, 0)
Year(y) == Tok("yyyy", y, 0, 0, 0)                  \* 2026
SlashDate2020 == Tok("d/M/yyyy", 2020, 1, 1, 0)     \* 1/1/2020
IsoDate2026 == Tok("yyyy-MM-dd", 2026, 12, 15, 0)   \* 2026-12-15
IsoDateTime2026 ==
  Tok("yyyy-MM-ddTHH:mm", 2026, 12, 15, 18 * 60 + 30)  \* 2026-12-15T18:30
SevenPm == Tok("ha", 0, 0, 0, 19 * 60)              \* 7pm
HalfSix == Tok("HH:mm", 0, 0, 0, 18 * 60 + 30)      \* 18:30
Seven == Tok("h:mm", 0, 0, 0, 7 * 60)               \* 7:00
PM == Tok("a", 0, 0, 0, 12 * 60)                    \* PM
HalfSevenSec == Tok("HH:mm:ss", 0, 0, 0, 19 * 60 + 30)  \* 19:30:00
Soon == Tok("word", 0, 0, 0, 0)                     \* soon

\* The arguments of !setmeeting, as split on white space.
MeetingArgs ==
  {<< >>, <<Soon>>, <<SlashDate2020>>, <<D15, December, HalfSix>>,
   <<D15, December>>}

\* Further argument lists: a date of this year that has passed, typed
\* years, times of several forms, and texts that only new Date reads.
ParseArgs ==
  MeetingArgs \cup
  {<<D15, June>>, <<D15, June, Year(2026)>>, <<D15, December, Year(1999)>>,
   <<D15, December, Year(2027)>>, <<D15, December, SevenPm>>,
   <<December, D15Comma, Year(2026), Seven, PM>>,
   <<December, D15Comma, Year(2025), Seven, PM>>,
   <<Dec, D15, Year(2026), HalfSevenSec>>,
   <<IsoDate2026>>, <<IsoDateTime2026>>, <<SevenPm>>}

\* The hours the wall clock of DEFAULT_TIMEZONE is ahead of the clock of
\* the zone in which new Date reads a text without an offset: the zone of
\* the process (UTC for a date-only ISO text).
MaxShift == 1
ZoneShifts == 0..MaxShift

\* lastArg.includes("pm") || lastArg.includes("am") ||
\* lastArg.match(/\d{1,2}:\d{2}/), on the lower-cased token
isTimeArg(a) ==
  \/ a.t \in {"ha", "h:mma", "a"}
  \/ a.t \in {"HH:mm", "h:mma", "h:mm", "HH:mm:ss", "yyyy-MM-ddTHH:mm"}

\* dateStr and timeStr of !setmeeting, were the last token looked at in a
\* list of any length.
splitAnyLength(args) ==
  IF isTimeArg(args[Len(args)])
    THEN [dateStr |-> SubSeq(args, 1, Len(args) - 1),
          timeStr |-> <<args[Len(args)]>>]
    ELSE [dateStr |-> args, timeStr |-> << >>]

\* dateStr and timeStr of !setmeeting (<< >> for an undefined timeStr): the
\* last token is looked at only in a list of two or more.
splitMeetingArgs(args) ==
  IF Len(args) >= 2 /\ isTimeArg(args[Len(args)])
    THEN [dateStr |-> SubSeq(args, 1, Len(args) - 1),
          timeStr |-> <<args[Len(args)]>>]
    ELSE IF Len(args) >= 2
    THEN [dateStr |-> args, timeStr |-> << >>]
    ELSE [dateStr |-> <<args[1]>>, timeStr |-> << >>]

\* The formats parseMeetingDateTime tries, in its order.
formats ==
  << <<"yyyy-MM-dd", "HH:mm">>, <<"MMM", "d", "h:mma">>,
     <<"MMM", "d", "ha">>, <<"d", "MMMM", "yyyy", "HH:mm">>,
     <<"d", "MMMM", "yyyy", "h:mma">>, <<"d", "MMMM", "yyyy", "ha">>,
     <<"d", "MMMM", "yyyy">>, <<"d", "MMM", "yyyy", "HH:mm">>,
     <<"d", "MMM", "yyyy", "h:mma">>, <<"d", "MMM", "yyyy", "ha">>,
     <<"d", "MMM", "yyyy">>, <<"d/M/yyyy", "HH:mm">>,
     <<"d/M/yyyy", "h:mma">>, <<"d/M/yyyy", "ha">>, <<"d/M/yyyy">>,
     <<"MMMM", "d,", "yyyy", "HH:mm">>, <<"MMMM", "d,", "yyyy", "h:mma">>,
     <<"MMMM", "d,", "yyyy", "ha">>, <<"MMMM", "d,", "yyyy">>,
     <<"MMMM", "d", "yyyy", "HH:mm">>, <<"MMMM", "d", "yyyy", "h:mma">>,
     <<"MMMM", "d", "yyyy", "ha">>, <<"MMMM", "d", "yyyy">>,
     <<"MMM", "d,", "yyyy", "HH:mm">>, <<"MMM", "d,", "yyyy", "h:mma">>,
     <<"MMM", "d,", "yyyy", "ha">>, <<"MMM", "d,", "yyyy">>,
     <<"MMM", "d", "yyyy", "HH:mm">>, <<"MMM", "d", "yyyy", "h:mma">>,
     <<"MMM", "d", "yyyy", "ha">>, <<"MMM", "d", "yyyy">>,
     <<"MMMM", "d", "HH:mm">>, <<"MMMM", "d", "h:mma">>,
     <<"MMMM", "d", "ha">>, <<"MMMM", "d">>, <<"MMM", "d", "HH:mm">>,
     <<"MMM", "d", "h:mma">>, <<"MMM", "d", "ha">>, <<"MMM", "d">>,
     <<"d", "MMMM", "HH:mm">>, <<"d", "MMMM", "h:mma">>,
     <<"d", "MMMM", "ha">>, <<"d", "MMMM">>, <<"d", "MMM", "HH:mm">>,
     <<"d", "MMM", "h:mma">>, <<"d", "MMM", "ha">>, <<"d", "MMM">> >>

\* The forms outside the list above that new Date(text) reads, such as
\* "December 15, 2026 7:00 PM", "Dec 15 2026 19:30:00", "2026-12-15" and
\* "2026-12-15T18:30".
naturalForms ==
  {<<"MMMM", "d,", "yyyy", "h:mm", "a">>, <<"MMM", "d", "yyyy", "HH:mm:ss">>,
   <<"yyyy-MM-dd">>, <<"yyyy-MM-ddTHH:mm">>}

classesOf(text) == [i \in DOMAIN text |-> text[i].t]

\* The numbers a text names: the sum over its tokens (a text names a
\* year, a month and a day at most once each).
RECURSIVE sumOf(_, _)
sumOf(text, field) ==
  IF text = << >> THEN 0
  ELSE (CASE field = "year" -> Head(text).year
          [] field = "month" -> Head(text).month
          [] field = "day" -> Head(text).day
          [] OTHER -> Head(text).minutes) + sumOf(Tail(text), field)

\* DateTime.fromFormat(text, format, { zone: DEFAULT_TIMEZONE }): a year the
\* format does not name is the current one, a time it does not name is
\* midnight.
fromFormat(text, format, nowDT) ==
  IF classesOf(text) = format
    THEN DT(IF sumOf(text, "year") = 0 THEN nowDT.year
            ELSE sumOf(text, "year"),
            ordinal(sumOf(text, "month"), sumOf(text, "day")),
            sumOf(text, "minutes"))
    ELSE InvalidDT

\* DateTime.fromJSDate(new Date(text), { zone: DEFAULT_TIMEZONE }): the text
\* is read as a wall-clock time of the zone new Date uses, and the instant
\* is then given in DEFAULT_TIMEZONE.
fromJSDate(text, shift) ==
  IF classesOf(text) \in naturalForms
    THEN LET m == sumOf(text, "minutes") + 60 * shift
             ord == ordinal(sumOf(text, "month"), sumOf(text, "day"))
         IN IF m >= 24 * 60
              THEN DT(sumOf(text, "year"), ord + 1, m - 24 * 60)
              ELSE DT(sumOf(text, "year"), ord, m)
    ELSE InvalidDT

\* /\b20\d{2}\b/.test(combined)
hasYear(combined) ==
  \E i \in DOMAIN combined : combined[i].year \in 2000..2099

\* parseMeetingDateTime(dateStr, timeStr) when the clock reads t: the first
\* format that reads the combined text, else what new Date makes of it,
\* else an invalid DateTime; 19:00 when there is no timeStr; one year later
\* when the instant is past and the text has no year 20xx.
parseMeetingDateTime(dateStr, timeStr, t, shift) ==
  LET combined == IF timeStr # << >> THEN dateStr \o timeStr ELSE dateStr
      nowDT == DateTimeNow(t)
      matching == {i \in DOMAIN formats :
                     fromFormat(combined, formats[i], nowDT).isValid}
      first == CHOOSE i \in matching : \A j \in matching : i <= j
      naturalAttempt == fromJSDate(combined, shift)
      parsedDate == IF matching # {}
                      THEN fromFormat(combined, formats[first], nowDT)
                      ELSE IF naturalAttempt.isValid THEN naturalAttempt
                      ELSE InvalidDT
      timed == IF timeStr = << >> /\ parsedDate.isValid
                 THEN [parsedDate EXCEPT !.minutes = DefaultHour * 60]
                 ELSE parsedDate
  IN IF timed.isValid /\ before(timed, nowDT) /\ ~hasYear(combined)
       THEN [timed EXCEPT !.year = @ + 1]
       ELSE timed

\* parsedDate.toISO(); null is << >>.
toISO(dt) == <<dt.year, dt.ord, dt.minutes>>

\* event.id of the n-th scheduled event the guild creates.
eventIdOf(n) ==
  CASE n = 1 -> "e1"
    [] n = 2 -> "e2"
    [] OTHER -> "e3"

\* meetingInfo: date and time are renderings of the instant in isoDate and
\* are set with it; a null isoDate is << >>, a null eventId "null".
NoMeeting == [isoDate |-> << >>, eventId |-> "null"]

DefaultStorage == [readingPoint |-> "null", meetingInfo |-> NoMeeting]

\* ----------------------------------------------------- the Poll collection
\* Index of the first document with the given messageId (channelId), 0 when
\* there is none.
RECURSIVE IndexOfMessage(_, _, _)
IndexOfMessage(coll, id, i) ==
  IF i > Len(coll) THEN 0
  ELSE IF coll[i].messageId = id THEN i
  ELSE IndexOfMessage(coll, id, i + 1)

RECURSIVE IndexOfChannel(_, _, _)
IndexOfChannel(coll, ch, i) ==
  IF i > Len(coll) THEN 0
  ELSE IF coll[i].channelId = ch THEN i
  ELSE IndexOfChannel(coll, ch, i + 1)

findOneByMessage(coll, id) ==
  LET i == IndexOfMessage(coll, id, 1)
  IN IF i = 0 THEN NoDoc ELSE coll[i]

\* findOneByChannel with no filter on the channel: Poll.findOne({}).
findOneAnyChannel(coll, ch) ==
  IF coll = << >> THEN NoDoc ELSE coll[1]

findOneByChannel(coll, ch) ==
  LET i == IndexOfChannel(coll, ch, 1)
  IN IF i = 0 THEN NoDoc ELSE coll[i]

deleteOne(coll, id) ==
  LET i == IndexOfMessage(coll, id, 1)
  IN IF i = 0 THEN coll
     ELSE [j \in 1..(Len(coll) - 1) |-> IF j < i THEN coll[j] ELSE coll[j + 1]]

\* saveVote, were the save to write the end time as well.
saveVoteExtend(coll, id, u, val) ==
  LET i == IndexOfMessage(coll, id, 1)
  IN IF i = 0 THEN coll
     ELSE [coll EXCEPT ![i].votes = votesSet(coll[i].votes, u, val),
                       ![i].endTime = @ + 1]

\* poll.save() of a loaded document after votes.set(u, val): an update of
\* the one map key on the stored document; it changes nothing when the
\* document is gone.
saveVote(coll, id, u, val) ==
  LET i == IndexOfMessage(coll, id, 1)
  IN IF i = 0 THEN coll
     ELSE [coll EXCEPT ![i].votes = votesSet(coll[i].votes, u, val)]

InDb(coll, id) == findOneByMessage(coll, id) # NoDoc

\* ------------------------------------------------------------------ state
VARIABLES
  now,          \* the clock, in days
  phase,        \* "down", "recovering" (loadActivePolls), "login", "ready"
  settingsDoc,  \* the store holds the "global_settings" document
  pollsDb,      \* the Poll collection, in insertion order
  nextId,       \* id the gateway gives the next poll message
  timers,       \* pending setTimeout callbacks: the document each closes over
  tasks,        \* endPoll invocations in flight, in the order they started
  recQueue,     \* polls loadActivePolls has still to look at
  creating,     \* !poll handlers between channel.send and newPoll.save
  voteH,        \* per voter, the interaction handler in flight
  announced,    \* per poll, the result embeds sent to its channel
  accepted,     \* per poll, the votes ever written to the store
  acks,         \* the 'You voted' / 'changed' replies sent
  writes,       \* the votes the store has taken
  voteReply,    \* the last reply to an interaction
  cmdReply,     \* the last reply to a command
  recExpired,   \* polls this process's loadActivePolls found past endTime
  armed,        \* per poll, the setTimeout calls this process made for it
  crashes, votesIssued, endCmds,
  settingsData, \* the contents of the "global_settings" document
  currentPoint, \* let currentPoint
  meetingInfo,  \* let meetingInfo (the object storage.meetingInfo refers to)
  storage,      \* let storage
  cmdLog,       \* the !setpoint and !setmeeting commands delivered, each
                \* with its handler's position and the reply it has sent
  nextEvent,    \* number the guild gives the next scheduled event
  loginLoop,    \* the login loop of initializeBot: retryCount, where it is,
                \* and the delay of its last wait
  uptimeMonitor, \* uptimeMonitor: isEnabled, failCount
  heartbeats,   \* the sendHeartbeat calls in flight and the requests made
  categoryId,   \* process.env.DISCORD_CATEGORY_ID ("" when not set)
  gateLog,      \* the messages delivered, each with what became of it
  sheetLog      \* the calls of getSheetData, each with what it returned

\* The settings in memory and in the store, and the commands on them.
settingsMem ==
  <<settingsData, currentPoint, meetingInfo, storage, cmdLog, nextEvent>>

\* The polls in memory and in the store, and the traffic on them.
pollVars ==
  <<pollsDb, nextId, timers, tasks, recQueue, creating, voteH, announced,
    accepted, acks, writes, voteReply, cmdReply, recExpired, armed,
    votesIssued, endCmds>>

\* The login loop, the heartbeat monitor, the category restriction and the
\* sheet reader.
opsVars ==
  <<loginLoop, uptimeMonitor, heartbeats, categoryId, gateLog, sheetLog>>

vars == <<opsVars, now, phase, settingsDoc, armed, pollsDb, nextId, timers, tasks,
          recQueue, creating, voteH, announced, accepted, acks, writes, voteReply,
          cmdReply, recExpired, crashes, votesIssued, endCmds, settingsMem>>

IdleHandler == [pc |-> "idle", poll |-> 0, value |-> 0, kind |-> ""]
IdleCreate == [pc |-> "idle", doc |-> NoDoc]
NoVoteReply == [to |-> "", kind |-> "none", poll |-> 0]
NoCmdReply == [cmd |-> "none", kind |-> "none", poll |-> 0]

\* uptimeMonitor after its constructor when UPTIMEROBOT_HEARTBEAT_URL is
\* or is not set.
newMonitor(configured) == [isEnabled |-> configured, failCount |-> 0]

\* initializeBot before its loop: let retryCount = 0.
NoLogin == [retryCount |-> 0, pc |-> "try", delay |-> 0]

\* A process with neither a heartbeat URL nor a category configured, before
\* any message.
InitOps ==
  /\ loginLoop = NoLogin
  /\ uptimeMonitor = newMonitor(FALSE)
  /\ heartbeats = [inFlight |-> 0, sent |-> 0]
  /\ categoryId = ""
  /\ gateLog = << >>
  /\ sheetLog = << >>

\* The process not yet started, the store empty.
InitDown ==
  /\ phase = "down"
  /\ settingsDoc \in BOOLEAN
  /\ pollsDb = << >>
  /\ nextId = 1
  /\ timers = << >>
  /\ tasks = << >>
  /\ recQueue = << >>
  /\ creating = [p \in PollIds |-> IdleCreate]
  /\ voteH = [u \in Voters |-> IdleHandler]
  /\ announced = [p \in PollIds |-> << >>]
  /\ accepted = [p \in PollIds |-> NoVotes]
  /\ acks = {}
  /\ writes = {}
  /\ voteReply = NoVoteReply
  /\ cmdReply = NoCmdReply
  /\ recExpired = {}
  /\ armed = [p \in PollIds |-> 0]
  /\ crashes = 0
  /\ votesIssued = 0
  /\ endCmds = 0
  /\ settingsData = DefaultStorage
  /\ currentPoint = "null"
  /\ meetingInfo = NoMeeting
  /\ storage = DefaultStorage
  /\ cmdLog = << >>
  /\ nextEvent = 1

Init ==
  /\ now = 0
  /\ InitDown
  /\ InitOps

\* What arrives from outside is counted, so that a run is finite.
Inputs == votesIssued + endCmds + crashes

RemoveAt(seq, i) ==
  [j \in 1..(Len(seq) - 1) |-> IF j < i THEN seq[j] ELSE seq[j + 1]]

\* --------------------------------------------------------------- startup
\* storage = savedSettings.toObject() when the document was read.
loadedStorage(found, saved, current) == IF found THEN saved ELSE current

\* Start, were initializeBot (and with it loadActivePolls) also run again in
\* a process that is already up.
StartAgain(storeOk) ==
  /\ phase \in {"down", "ready"}
  /\ \A p \in PollIds : armed[p] <= 1
  /\ IF storeOk /\ settingsDoc
       THEN /\ phase' = "recovering"
            /\ recQueue' = pollsDb
       ELSE /\ phase' = "login"
            /\ recQueue' = << >>
  /\ storage' = loadedStorage(storeOk /\ settingsDoc, settingsData, storage)
  /\ currentPoint' = storage'.readingPoint
  /\ meetingInfo' = storage'.meetingInfo
  /\ UNCHANGED <<opsVars, now, settingsDoc, settingsData, cmdLog, nextEvent, armed,
                 pollsDb, nextId, timers, tasks, creating, voteH, announced,
                 accepted, acks, writes, voteReply, cmdReply, recExpired,
                 crashes, votesIssued, endCmds>>

\* initializeBot up to the login loop: connect, read the settings document
\* and, only when there is one, load it into storage, currentPoint and
\* meetingInfo and call loadActivePolls (Poll.find({})).
Start(storeOk) ==
  /\ phase = "down"
  /\ IF storeOk /\ settingsDoc
       THEN /\ phase' = "recovering"
            /\ recQueue' = pollsDb
       ELSE /\ phase' = "login"
            /\ recQueue' = << >>
  /\ storage' = loadedStorage(storeOk /\ settingsDoc, settingsData, storage)
  /\ currentPoint' = storage'.readingPoint
  /\ meetingInfo' = storage'.meetingInfo
  /\ UNCHANGED <<opsVars, now, settingsDoc, settingsData, cmdLog, nextEvent, armed,
                 pollsDb, nextId, timers, tasks, creating, voteH, announced,
                 accepted, acks, writes, voteReply, cmdReply, recExpired,
                 crashes, votesIssued, endCmds>>

\* The login loop, here its successful exit.
Login ==
  /\ phase = "login"
  /\ phase' = "ready"
  /\ UNCHANGED <<opsVars, now, settingsDoc, settingsMem, armed, pollsDb, nextId,
                 timers, tasks, recQueue, creating, voteH, announced,
                 accepted, acks, writes, voteReply, cmdReply, recExpired,
                 crashes, votesIssued, endCmds>>

\* The process dies and is started again: timers, handlers and everything
\* else in memory are gone, the store and the channel's messages stay.
Crash ==
  /\ phase # "down"
  /\ crashes < MaxCrashes
  /\ Inputs < MaxInputs
  /\ crashes' = crashes + 1
  /\ phase' = "down"
  /\ timers' = << >>
  /\ tasks' = << >>
  /\ recQueue' = << >>
  /\ creating' = [p \in PollIds |-> IdleCreate]
  /\ voteH' = [u \in Voters |-> IdleHandler]
  /\ recExpired' = {}
  /\ armed' = [p \in PollIds |-> 0]
  /\ storage' = DefaultStorage
  /\ currentPoint' = "null"
  /\ meetingInfo' = NoMeeting
  /\ cmdLog' = [k \in DOMAIN cmdLog |->
                  IF cmdLog[k].pc = "done" THEN cmdLog[k]
                  ELSE [cmdLog[k] EXCEPT !.pc = "dead"]]
  /\ UNCHANGED <<opsVars, now, settingsDoc, settingsData, nextEvent, pollsDb, nextId,
                 announced, accepted, acks, writes, voteReply, cmdReply,
                 votesIssued, endCmds>>

Tick ==
  /\ now < MaxTime
  /\ now' = now + 1
  /\ UNCHANGED <<opsVars, phase, settingsDoc, settingsMem, armed, pollsDb, nextId,
                 timers, tasks, recQueue, creating, voteH, announced,
                 accepted, acks, writes, voteReply, cmdReply, recExpired,
                 crashes, votesIssued, endCmds>>

\* --------------------------------------------------------------- endPoll
\* endPoll is entered with the document pollData and runs to its first
\* await that matters: channels.fetch and messages.fetch answer "ok" (the
\* tally is made and channel.send is under way), "null" (nothing fetched:
\* deleteOne is under way) or "throw" (the catch logs, endPoll returns).
\* (stored: the votes the store has accepted for the poll at this moment,
\* located: channel and message were fetched; both are kept beside the
\* invocation for the properties below.)
startEndPoll(running, pollData, origin, armedBy, outcome, stored) ==
  CASE outcome = "ok" ->
         Append(running, [pc |-> "send", doc |-> pollData, origin |-> origin,
                          armedBy |-> armedBy, stored |-> stored,
                          located |-> TRUE])
    [] outcome = "null" ->
         Append(running, [pc |-> "delete", doc |-> pollData,
                          origin |-> origin, armedBy |-> armedBy,
                          stored |-> stored, located |-> FALSE])
    [] OTHER -> running

FetchOutcomes == {"ok", "null", "throw"}

\* endPoll returns (normally or through its catch) to its caller; !endpoll
\* then replies that the poll was ended.
returnReply(origin, pollData, reply) ==
  IF origin = "manual"
    THEN [cmd |-> "endpoll", kind |-> "ended", poll |-> pollData.messageId]
    ELSE reply

\* The votes endPoll tallies: those of the document it was called with.
talliedVotes(task) == task.doc.votes

\* endPoll, channel.send of the result embed built from the tally.
EndPollSend(i, ok) ==
  /\ i \in DOMAIN tasks
  /\ tasks[i].pc = "send"
  /\ IF ok
       THEN /\ announced' = [announced EXCEPT ![tasks[i].doc.messageId] =
                  Append(@, [votes |-> talliedVotes(tasks[i]),
                             tally |-> Tally(talliedVotes(tasks[i])),
                             average |->
                               averageRating(Tally(talliedVotes(tasks[i]))),
                             origin |-> tasks[i].origin,
                             armedBy |-> tasks[i].armedBy,
                             stored |-> tasks[i].stored])]
            /\ tasks' = [tasks EXCEPT ![i].pc = "delete"]
            /\ UNCHANGED cmdReply
       ELSE /\ tasks' = RemoveAt(tasks, i)
            /\ cmdReply' = returnReply(tasks[i].origin, tasks[i].doc, cmdReply)
            /\ UNCHANGED announced
  /\ UNCHANGED <<opsVars, now, phase, settingsDoc, settingsMem, armed, pollsDb, nextId,
                 timers, recQueue, creating, voteH, accepted, acks, writes,
                 voteReply, recExpired, crashes, votesIssued, endCmds>>

\* endPoll, message.unpin() (its failure is only logged) and Poll.deleteOne.
EndPollDelete(i, ok) ==
  /\ i \in DOMAIN tasks
  /\ tasks[i].pc = "delete"
  /\ pollsDb' = IF ok THEN deleteOne(pollsDb, tasks[i].doc.messageId)
                ELSE pollsDb
  /\ tasks' = RemoveAt(tasks, i)
  /\ cmdReply' = returnReply(tasks[i].origin, tasks[i].doc, cmdReply)
  /\ UNCHANGED <<opsVars, now, phase, settingsDoc, settingsMem, armed, nextId, timers,
                 recQueue, creating, voteH, announced, accepted, acks, writes,
                 voteReply, recExpired, crashes, votesIssued, endCmds>>

\* A timer set by !poll or by loadActivePolls comes due: endPoll is called
\* with the document the callback closed over.
TimerFire(i, outcome) ==
  /\ phase # "down"
  /\ i \in DOMAIN timers
  /\ timers[i].at <= now
  /\ Len(tasks) < MaxTasks
  /\ timers' = RemoveAt(timers, i)
  /\ tasks' = startEndPoll(tasks, timers[i].doc, "timer", timers[i].armedBy,
                           outcome, accepted[timers[i].doc.messageId])
  /\ UNCHANGED <<opsVars, now, phase, settingsDoc, settingsMem, armed, pollsDb, nextId,
                 recQueue, creating, voteH, announced, accepted, acks, writes,
                 voteReply, cmdReply, recExpired, crashes, votesIssued,
                 endCmds>>

\* !endpoll: the first poll of the channel is looked up and handed to
\* endPoll; whatever endPoll does, the reply says the poll was ended.
EndPollCmd(ch, dbOk, outcome) ==
  /\ phase = "ready"
  /\ endCmds < MaxEndCmds
  /\ Inputs < MaxInputs
  /\ endCmds' = endCmds + 1
  /\ LET activePoll == findOneByChannel(pollsDb, ch)
     IN IF ~dbOk
          THEN /\ cmdReply' = [cmd |-> "endpoll", kind |-> "error", poll |-> 0]
               /\ UNCHANGED tasks
          ELSE IF activePoll = NoDoc
          THEN /\ cmdReply' = [cmd |-> "endpoll", kind |-> "notfound", poll |-> 0]
               /\ UNCHANGED tasks
          ELSE /\ Len(tasks) < MaxTasks
               /\ tasks' = startEndPoll(tasks, activePoll, "manual", "none",
                                        outcome,
                                        accepted[activePoll.messageId])
               /\ cmdReply' = IF outcome = "throw"
                                THEN returnReply("manual", activePoll, cmdReply)
                                ELSE cmdReply
  /\ UNCHANGED <<opsVars, now, phase, settingsDoc, settingsMem, armed, pollsDb, nextId,
                 timers, recQueue, creating, voteH, announced, accepted, acks,
                 writes, voteReply, recExpired, crashes, votesIssued>>

\* ------------------------------------------------------ loadActivePolls
\* What loadActivePolls does with one poll: past its end time it is ended
\* now, otherwise a timer is set for the remaining time.
recoverNow(poll, t) == poll.endTime <= t

\* One iteration of the loop of loadActivePolls; the loop waits for the
\* endPoll it awaits before it takes the next poll.
RecoverStep(outcome) ==
  /\ phase = "recovering"
  /\ \A i \in DOMAIN tasks : tasks[i].origin # "recovery"
  /\ IF recQueue = << >>
       THEN /\ phase' = "login"
            /\ UNCHANGED <<recQueue, tasks, timers, recExpired, armed>>
       ELSE LET poll == Head(recQueue)
            IN /\ recQueue' = Tail(recQueue)
               /\ IF recoverNow(poll, now)
                    THEN /\ Len(tasks) < MaxTasks
                         /\ tasks' = startEndPoll(tasks, poll, "recovery",
                                                  "none", outcome,
                                                  accepted[poll.messageId])
                         /\ recExpired' = recExpired \cup {poll.messageId}
                         /\ UNCHANGED <<timers, armed>>
                    ELSE /\ timers' = Append(timers,
                               [doc |-> poll, at |-> poll.endTime,
                                armedBy |-> "recovery"])
                         /\ armed' = [armed EXCEPT ![poll.messageId] = @ + 1]
                         /\ UNCHANGED <<tasks, recExpired>>
               /\ UNCHANGED phase
  /\ UNCHANGED <<opsVars, now, settingsDoc, settingsMem, pollsDb, nextId, creating,
                 voteH, announced, accepted, acks, writes, voteReply,
                 cmdReply, crashes, votesIssued, endCmds>>

\* ----------------------------------------------------------------- !poll
\* pollEndTime without the three days added.
pollEndTimeNow(t) == t

\* DateTime.now().plus({ days: 3 })
pollEndTime(t) == t + PollDays

\* The document of a new poll, keyed by the id of the poll message.
newPoll(id, ch, title, endTime) ==
  [messageId |-> id, channelId |-> ch, title |-> title, endTime |-> endTime,
   votes |-> NoVotes]

\* The !poll handler up to its first await: with no argument it replies
\* with the usage text; otherwise it fixes the end time and sends the poll
\* message, whose id becomes the poll's key. A poll is created while the
\* clock can still reach its end time.
PollCmd(ch, title) ==
  /\ phase = "ready"
  /\ IF title = ""
       THEN /\ cmdReply' = [cmd |-> "poll", kind |-> "help", poll |-> 0]
            /\ UNCHANGED <<creating, nextId>>
       ELSE /\ nextId <= MaxPolls
            /\ now + PollDays <= MaxTime
            /\ creating' = [creating EXCEPT ![nextId] =
                  [pc |-> "save",
                   doc |-> newPoll(nextId, ch, title, pollEndTime(now))]]
            /\ nextId' = nextId + 1
            /\ UNCHANGED cmdReply
  /\ UNCHANGED <<opsVars, now, phase, settingsDoc, settingsMem, armed, pollsDb, timers,
                 tasks, recQueue, voteH, announced, accepted, acks, writes,
                 voteReply, recExpired, crashes, votesIssued, endCmds>>

\* The rest of the !poll handler: newPoll.save(), setTimeout on the document
\* just saved, pollMessage.pin(), the reply. A throw of save() or of pin()
\* ends in the same catch.
PollSave(id, dbOk, pinOk) ==
  /\ creating[id].pc = "save"
  /\ creating' = [creating EXCEPT ![id] = IdleCreate]
  /\ IF dbOk
       THEN /\ pollsDb' = Append(pollsDb, creating[id].doc)
            /\ timers' = Append(timers,
                  [doc |-> creating[id].doc, at |-> creating[id].doc.endTime,
                   armedBy |-> "create"])
            /\ armed' = [armed EXCEPT ![id] = @ + 1]
            /\ cmdReply' = [cmd |-> "poll",
                            kind |-> IF pinOk THEN "created" ELSE "error",
                            poll |-> id]
       ELSE /\ cmdReply' = [cmd |-> "poll", kind |-> "error", poll |-> id]
            /\ UNCHANGED <<pollsDb, timers, armed>>
  /\ UNCHANGED <<opsVars, now, phase, settingsDoc, settingsMem, nextId, tasks,
                 recQueue, voteH, announced, accepted, acks, writes,
                 voteReply, recExpired, crashes, votesIssued, endCmds>>

\* ------------------------------------------------------ button interaction
\* voteOutcome without the comparison of endTime with the clock.
voteOutcomeNoExpiry(doc, voter, value, t) ==
  IF doc = NoDoc THEN "notfound"
  ELSE IF votesHas(doc.votes, voter)
    THEN IF doc.votes[voter] = value /\ value # NaN THEN "already"
         ELSE "changed"
  ELSE "recorded"

\* voteOutcome without the comparison of the stored vote with the new one.
voteOutcomeNoSame(doc, voter, value, t) ==
  IF doc = NoDoc THEN "notfound"
  ELSE IF doc.endTime <= t THEN "expired"
  ELSE IF votesHas(doc.votes, voter) THEN "changed"
  ELSE "recorded"

\* What the handler decides once Poll.findOne has answered with doc.
voteOutcome(doc, voter, value, t) ==
  IF doc = NoDoc THEN "notfound"
  ELSE IF doc.endTime <= t THEN "expired"
  ELSE IF votesHas(doc.votes, voter)
    THEN IF doc.votes[voter] = value /\ value # NaN THEN "already"
         ELSE "changed"
  ELSE "recorded"

\* poll.save() goes through: the store answers, the value is a number and
\* the document is still in the collection; otherwise it throws.
saveOk(coll, id, value, dbOk) == dbOk /\ value # NaN /\ InDb(coll, id)

\* replyAfterSave with a save whose failure is not looked at.
replyAfterSaveUnchecked(kind, saved) == kind

\* The reply that follows poll.save(): the acknowledgment, or the catch.
replyAfterSave(kind, saved) == IF saved THEN kind ELSE "error"

\* The handler up to Poll.findOne: a customId that does not start with
\* 'poll_' is not handled, one without exactly three parts is answered with
\* an error; the rating is parseFloat of the third part.
VoteArrive(voter, msg, parts) ==
  /\ phase = "ready"
  /\ votesIssued < MaxVotes
  /\ Inputs < MaxInputs
  /\ votesIssued' = votesIssued + 1
  /\ msg \in 1..(nextId - 1)
  /\ voteH[voter].pc = "idle"
  /\ IF ~startsWithPoll(parts)
       THEN UNCHANGED <<voteH, voteReply>>
       ELSE IF Len(parts) # 3
       THEN /\ voteReply' = [to |-> voter, kind |-> "invalid", poll |-> msg]
            /\ UNCHANGED voteH
       ELSE /\ voteH' = [voteH EXCEPT ![voter] =
                  [pc |-> "find", poll |-> msg,
                   value |-> parseFloat(parts[3]), kind |-> ""]]
            /\ UNCHANGED voteReply
  /\ UNCHANGED <<opsVars, now, phase, settingsDoc, settingsMem, armed, pollsDb, nextId,
                 timers, tasks, recQueue, creating, announced, accepted, acks,
                 writes, cmdReply, recExpired, crashes, endCmds>>

\* Poll.findOne answers (or throws) and the handler runs to its next await:
\* a reply, or votes.set and poll.save().
VoteFind(voter, dbOk) ==
  /\ voteH[voter].pc = "find"
  /\ LET hd == voteH[voter]
         kind == IF dbOk
                   THEN voteOutcome(findOneByMessage(pollsDb, hd.poll),
                                    voter, hd.value, now)
                   ELSE "error"
     IN IF kind \in {"recorded", "changed"}
          THEN /\ voteH' = [voteH EXCEPT ![voter].pc = "save",
                                         ![voter].kind = kind]
               /\ UNCHANGED voteReply
          ELSE /\ voteH' = [voteH EXCEPT ![voter] = IdleHandler]
               /\ voteReply' = [to |-> voter, kind |-> kind, poll |-> hd.poll]
  /\ UNCHANGED <<opsVars, now, phase, settingsDoc, settingsMem, armed, pollsDb, nextId,
                 timers, tasks, recQueue, creating, announced, accepted, acks,
                 writes, cmdReply, recExpired, crashes, votesIssued, endCmds>>

\* poll.save() and the reply that follows it.
VoteSave(voter, dbOk) ==
  /\ voteH[voter].pc = "save"
  /\ LET hd == voteH[voter]
         saved == saveOk(pollsDb, hd.poll, hd.value, dbOk)
         reply == replyAfterSave(hd.kind, saved)
     IN /\ pollsDb' = IF saved
                        THEN saveVote(pollsDb, hd.poll, voter, hd.value)
                        ELSE pollsDb
        /\ accepted' = IF saved
                         THEN [accepted EXCEPT ![hd.poll] =
                                 votesSet(@, voter, hd.value)]
                         ELSE accepted
        /\ writes' = IF saved
                       THEN writes \cup {[poll |-> hd.poll, voter |-> voter,
                                          value |-> hd.value]}
                       ELSE writes
        /\ voteReply' = [to |-> voter, kind |-> reply, poll |-> hd.poll]
        /\ acks' = IF reply \in {"recorded", "changed"}
                     THEN acks \cup {[poll |-> hd.poll, voter |-> voter,
                                      value |-> hd.value]}
                     ELSE acks
  /\ voteH' = [voteH EXCEPT ![voter] = IdleHandler]
  /\ UNCHANGED <<opsVars, now, phase, settingsDoc, settingsMem, armed, nextId, timers,
                 tasks, recQueue, creating, announced, cmdReply, recExpired,
                 crashes, votesIssued, endCmds>>

\* ------------------------------------------------- !setpoint, !setmeeting
\* A command as it is logged on arrival: its handler's position, the reply
\* it has sent so far ("none": no message.reply yet), the object handed to
\* saveStorage, the instant parsed and the id of the event the handler has
\* created (the event behind its eventUrl; for !clearevent, what became of
\* the event it was to delete), for a command that reads, the value its
\* reply shows and, for a !setmeeting with arguments, the dateStr and timeStr
\* it made of them, what parseMeetingDateTime returned and the clock's
\* reading then.
logged(cmd, args, pc, reply, saving, day) ==
  [cmd |-> cmd, args |-> args, pc |-> pc, reply |-> reply,
   saving |-> saving, day |-> day, event |-> "null", shown |-> "null",
   split |-> [dateStr |-> << >>, timeStr |-> << >>], parsed |-> InvalidDT,
   at |-> 0]

\* !setpoint up to its await: with no argument the usage embed is built and
\* the handler returns; otherwise currentPoint and storage.readingPoint are
\* set and saveStorage(storage) is called.
SetPointCmd(args) ==
  /\ phase = "ready"
  /\ Len(cmdLog) < MaxSetCmds
  /\ IF Len(args) = 0
       THEN /\ cmdLog' = Append(cmdLog,
                  logged("setpoint", args, "done", "none", storage, NaN))
            /\ UNCHANGED <<currentPoint, storage>>
       ELSE /\ currentPoint' = joinArgs(args)
            /\ storage' = [storage EXCEPT !.readingPoint = joinArgs(args)]
            /\ cmdLog' = Append(cmdLog,
                  logged("setpoint", args, "save", "none", storage', NaN))
  /\ UNCHANGED <<opsVars, now, phase, settingsDoc, settingsData, meetingInfo,
                 nextEvent, pollVars, crashes>>

\* !setmeeting with every date that does not yield a meeting answered in
\* the same words.
meetingOutcomeOneReply(args, t, shift) ==
  IF Len(args) = 0 THEN "usage"
  ELSE LET sp == splitMeetingArgs(args)
           parsedDate == parseMeetingDateTime(sp.dateStr, sp.timeStr, t, shift)
       IN IF ~parsedDate.isValid THEN "invalid"
          ELSE IF ~before(DateTimeNow(t), parsedDate) THEN "invalid"
          ELSE "set"

\* What !setmeeting decides before it touches anything: "usage" with no
\* argument, "invalid" for a date that does not parse ('Could not
\* understand that date/time'), "past" for one that is not after now
\* ('Please set a meeting time in the future'), "set" otherwise.
meetingOutcome(args, t, shift) ==
  IF Len(args) = 0 THEN "usage"
  ELSE LET sp == splitMeetingArgs(args)
           parsedDate == parseMeetingDateTime(sp.dateStr, sp.timeStr, t, shift)
       IN IF ~parsedDate.isValid THEN "invalid"
          ELSE IF ~before(DateTimeNow(t), parsedDate) THEN "past"
          ELSE "set"

\* !setmeeting up to its first await: with no argument the usage embed is
\* built and the handler returns; an unparseable or past date is answered;
\* otherwise meetingInfo takes the new instant and createBookClubEvent is
\* called.
SetMeetingCmd(args, shift) ==
  /\ phase = "ready"
  /\ Len(cmdLog) < MaxSetCmds
  /\ LET outcome == meetingOutcome(args, now, shift)
         sp == splitMeetingArgs(args)
         parsedDate == parseMeetingDateTime(sp.dateStr, sp.timeStr, now, shift)
         entry(pc, reply, saving, day) ==
           [logged("setmeeting", args, pc, reply, saving, day)
              EXCEPT !.split = sp, !.parsed = parsedDate, !.at = now]
     IN CASE outcome = "usage" ->
               /\ cmdLog' = Append(cmdLog,
                     logged("setmeeting", args, "done", "none", storage, NaN))
               /\ UNCHANGED <<meetingInfo, storage>>
          [] outcome \in {"invalid", "past"} ->
               /\ cmdLog' = Append(cmdLog,
                     entry("done", outcome, storage, NaN))
               /\ UNCHANGED <<meetingInfo, storage>>
          [] OTHER ->
               /\ meetingInfo' =
                    [meetingInfo EXCEPT !.isoDate = toISO(parsedDate)]
               /\ storage' = [storage EXCEPT !.meetingInfo = meetingInfo']
               /\ cmdLog' = Append(cmdLog,
                     entry("event", "none", storage', parsedDate.ord))
  /\ UNCHANGED <<opsVars, now, phase, settingsDoc, settingsData, currentPoint,
                 nextEvent, pollVars, crashes>>

\* createBookClubEvent settles: the id of the event it created is put into
\* meetingInfo, or its failure is logged; storage.meetingInfo = meetingInfo
\* and saveStorage(storage) is called.
SetMeetingEvent(k, ok) ==
  /\ k \in DOMAIN cmdLog
  /\ cmdLog[k].cmd = "setmeeting"
  /\ cmdLog[k].pc = "event"
  /\ meetingInfo' = IF ok
                      THEN [meetingInfo EXCEPT !.eventId = eventIdOf(nextEvent)]
                      ELSE meetingInfo
  /\ nextEvent' = IF ok THEN nextEvent + 1 ELSE nextEvent
  /\ storage' = [storage EXCEPT !.meetingInfo = meetingInfo']
  /\ cmdLog' = [cmdLog EXCEPT ![k].pc = "save", ![k].saving = storage',
                              ![k].event = IF ok THEN eventIdOf(nextEvent)
                                           ELSE "null"]
  /\ UNCHANGED <<opsVars, now, phase, settingsDoc, settingsData, currentPoint,
                 pollVars, crashes>>

\* The reply a handler sends once saveStorage has returned: 'Reading Point
\* Updated', 'Reading Point Cleared', 'Meeting Cleared', or 'Meeting Set!'
\* with the field 'Discord Event' when there is an eventUrl ("set+event")
\* and without it otherwise ("set").
successReply(c) ==
  CASE c.cmd = "setpoint" -> "updated"
    [] c.cmd = "clearpoint" -> "pointCleared"
    [] c.cmd = "clearevent" -> "meetingCleared"
    [] c.cmd = "setmeeting" /\ c.event # "null" -> "set+event"
    [] OTHER -> "set"

\* !currentpoint: the reply shows currentPoint, or says that none is set.
CurrentPointCmd ==
  /\ phase = "ready"
  /\ Len(cmdLog) < MaxSetCmds
  /\ cmdLog' = Append(cmdLog,
        [logged("currentpoint", << >>, "done",
                IF currentPoint # "null" THEN "point" ELSE "nopoint",
                storage, NaN) EXCEPT !.shown = currentPoint])
  /\ UNCHANGED <<opsVars, now, phase, settingsDoc, settingsData, currentPoint,
                 meetingInfo, storage, nextEvent, pollVars, crashes>>

\* !nextmeeting: the reply shows the instant in meetingInfo.isoDate (read
\* before the event link is fetched), or says that no meeting is scheduled.
NextMeetingCmd ==
  /\ phase = "ready"
  /\ Len(cmdLog) < MaxSetCmds
  /\ cmdLog' = Append(cmdLog,
        [logged("nextmeeting", << >>, "done",
                IF meetingInfo.isoDate # << >> THEN "meeting"
                ELSE "nomeeting",
                storage, NaN) EXCEPT !.shown = meetingInfo.isoDate])
  /\ UNCHANGED <<opsVars, now, phase, settingsDoc, settingsData, currentPoint,
                 meetingInfo, storage, nextEvent, pollVars, crashes>>

\* !clearpoint up to its await: currentPoint and storage.readingPoint are
\* set to null and saveStorage(storage) is called.
ClearPointCmd ==
  /\ phase = "ready"
  /\ Len(cmdLog) < MaxSetCmds
  /\ currentPoint' = "null"
  /\ storage' = [storage EXCEPT !.readingPoint = "null"]
  /\ cmdLog' = Append(cmdLog,
        logged("clearpoint", << >>, "save", "none", storage', NaN))
  /\ UNCHANGED <<opsVars, now, phase, settingsDoc, settingsData, meetingInfo,
                 nextEvent, pollVars, crashes>>

\* The second half of !clearevent: meetingInfo becomes a new object with
\* every field null, storage.meetingInfo refers to it and
\* saveStorage(storage) is called.
clearedStorage(st) == [st EXCEPT !.meetingInfo = NoMeeting]

\* !clearevent up to its first await: with an eventId in meetingInfo the
\* event is fetched to be deleted; with none the meeting is cleared at once.
ClearEventCmd ==
  /\ phase = "ready"
  /\ Len(cmdLog) < MaxSetCmds
  /\ IF meetingInfo.eventId # "null"
       THEN /\ cmdLog' = Append(cmdLog,
                  logged("clearevent", << >>, "event", "none", storage, NaN))
            /\ UNCHANGED <<meetingInfo, storage>>
       ELSE /\ meetingInfo' = NoMeeting
            /\ storage' = clearedStorage(storage)
            /\ cmdLog' = Append(cmdLog,
                  logged("clearevent", << >>, "save", "none", storage', NaN))
  /\ UNCHANGED <<opsVars, now, phase, settingsDoc, settingsData, currentPoint,
                 nextEvent, pollVars, crashes>>

\* scheduledEvents.fetch and event.delete settle ("deleted", or "notfound"
\* when either throws); then the meeting is cleared and saveStorage called.
ClearEventDelete(k, ok) ==
  /\ k \in DOMAIN cmdLog
  /\ cmdLog[k].cmd = "clearevent"
  /\ cmdLog[k].pc = "event"
  /\ meetingInfo' = NoMeeting
  /\ storage' = clearedStorage(storage)
  /\ cmdLog' = [cmdLog EXCEPT ![k].pc = "save", ![k].saving = storage',
                              ![k].event = IF ok THEN "deleted"
                                           ELSE "notfound"]
  /\ UNCHANGED <<opsVars, now, phase, settingsDoc, settingsData, currentPoint,
                 nextEvent, pollVars, crashes>>

\* saveStorage settles: Settings.findByIdAndUpdate(.., upsert) has written
\* the object it was given, or its failure was logged; either way the
\* handler sends its success reply.
SaveStorageStep(k, dbOk) ==
  /\ k \in DOMAIN cmdLog
  /\ cmdLog[k].pc = "save"
  /\ settingsData' = IF dbOk THEN cmdLog[k].saving ELSE settingsData
  /\ settingsDoc' = (settingsDoc \/ dbOk)
  /\ cmdLog' = [cmdLog EXCEPT ![k].pc = "done",
                              ![k].reply = successReply(cmdLog[k])]
  /\ UNCHANGED <<opsVars, now, phase, currentPoint, meetingInfo, storage, nextEvent,
                 pollVars, crashes>>

\* ------------------------------------------------------------ next state
Next ==
  \/ \E ok \in BOOLEAN : Start(ok)
  \/ \E outcome \in FetchOutcomes : RecoverStep(outcome)
  \/ Login
  \/ Crash
  \/ Tick
  \/ \E ch \in Channels, title \in Titles : PollCmd(ch, title)
  \/ \E id \in PollIds, dbOk \in BOOLEAN, pinOk \in BOOLEAN :
        PollSave(id, dbOk, pinOk)
  \/ \E i \in 1..MaxPolls, outcome \in FetchOutcomes : TimerFire(i, outcome)
  \/ \E ch \in Channels, dbOk \in BOOLEAN, outcome \in FetchOutcomes :
        EndPollCmd(ch, dbOk, outcome)
  \/ \E i \in 1..MaxTasks, ok \in BOOLEAN : EndPollSend(i, ok)
  \/ \E i \in 1..MaxTasks, ok \in BOOLEAN : EndPollDelete(i, ok)
  \/ \E u \in Voters, msg \in PollIds, parts \in CustomIds :
        VoteArrive(u, msg, parts)
  \/ \E u \in Voters, dbOk \in BOOLEAN : VoteFind(u, dbOk)
  \/ \E u \in Voters, dbOk \in BOOLEAN : VoteSave(u, dbOk)

Spec == Init /\ [][Next]_vars

\* ================================================================ claims
\* A step in which voter u's handler gets the answer of Poll.findOne.
LookupStep(u) ==
  /\ voteH[u].pc = "find"
  /\ voteH'[u].pc # "find"
  /\ phase' = phase

\* ... and the lookup itself did not throw.
LookupAnswered(u) ==
  /\ LookupStep(u)
  /\ ~(voteH'[u].pc = "idle" /\ voteReply'.to = u /\ voteReply'.kind = "error")

\* C1: for every poll, whatever triggers resolve it (its timer, !endpoll,
\* startup recovery) and however they interleave, at most one result
\* announcement is ever sent for it.
C1_AtMostOneAnnouncement ==
  \A p \in PollIds : Len(announced[p]) <= 1

\* C2: the aggregate announced for a poll counts every voter once, with the
\* last value of that voter the store had accepted when the resolution
\* started, whichever way the poll was resolved.
C2_AnnouncedLastVotes ==
  \A p \in PollIds : \A i \in DOMAIN announced[p] :
     announced[p][i].votes = announced[p][i].stored

\* C3: a poll that startup recovery found unexpired gets a countdown, and
\* the aggregate announced when that countdown fires includes the votes
\* accepted between recovery and the firing.
C3_RecoveredCountdownCountsVotes ==
  \A p \in PollIds : \A i \in DOMAIN announced[p] :
     (announced[p][i].origin = "timer" /\ announced[p][i].armedBy = "recovery")
       => announced[p][i].votes = announced[p][i].stored

\* C4: a poll that startup recovery found at or past its expiry is resolved
\* by recovery itself: when recovery is over, its result has been announced
\* and it is no longer in the store.
C4_ExpiredResolvedByRecovery ==
  phase \in {"login", "ready"} =>
    \A p \in recExpired : announced[p] # << >> /\ ~InDb(pollsDb, p)

\* C5: the resolved state of a poll is durable no later than its result is
\* announced: an announced poll is no longer an active poll of the store
\* (so that no restart can announce it again).
C5_DurableBeforeAnnounced ==
  \A p \in PollIds : announced[p] # << >> => ~InDb(pollsDb, p)

\* C6: once the result of a poll has been announced, the votes stored for
\* it never change again.
C6_NoVoteAfterAnnouncement ==
  [][\A p \in PollIds :
       announced[p] # << >> => accepted'[p] = accepted[p]]_vars

\* C7: a vote on a poll whose record is gone is rejected as not found, a
\* vote at or after the end time as expired (when the lookup itself throws,
\* the reply is the generic error); nothing is stored and the handler
\* issues no save.
C7_MissingOrExpiredRejected ==
  [][\A u \in Voters :
       LookupStep(u) =>
         LET doc == findOneByMessage(pollsDb, voteH[u].poll)
             gone == doc = NoDoc
             late == doc # NoDoc /\ doc.endTime <= now
         IN (gone \/ late) =>
              /\ voteH'[u].pc = "idle"
              /\ pollsDb' = pollsDb
              /\ accepted' = accepted
              /\ voteReply'.to = u
              /\ voteReply'.poll = voteH[u].poll
              /\ voteReply'.kind \in
                   {IF gone THEN "notfound" ELSE "expired", "error"}
              /\ LookupAnswered(u) =>
                   voteReply'.kind = IF gone THEN "notfound" ELSE "expired"]_vars

C7_Witness ==
  /\ voteReply.kind = "expired"
  /\ InDb(pollsDb, voteReply.poll)
  /\ accepted[voteReply.poll] # NoVotes

\* C8: every 'recorded' or 'changed' acknowledgment is for a vote the store
\* has taken: the write precedes the acknowledgment, and a failed write is
\* answered with the error reply.
C8_AckedIsWritten ==
  /\ acks \subseteq writes
  /\ \A u \in Voters :
       (voteReply.to = u /\ voteReply.kind \in {"recorded", "changed"})
         => \E w \in writes : w.voter = u /\ w.poll = voteReply.poll

C8_Witness ==
  /\ acks # {}
  /\ voteReply.kind = "error"

\* C9: every rating stored in a poll's votes is a value of the rating scale.
C9_StoredRatingsOnScale ==
  \A i \in DOMAIN pollsDb : \A u \in DOMAIN pollsDb[i].votes :
     pollsDb[i].votes[u] \in ScaleValues

\* A lookup step of voter u that finds u's stored vote equal to the new one.
SameVoteStep(u) ==
  /\ LookupAnswered(u)
  /\ LET doc == findOneByMessage(pollsDb, voteH[u].poll)
     IN /\ doc # NoDoc
        /\ doc.endTime > now
        /\ votesHas(doc.votes, u)
        /\ doc.votes[u] = voteH[u].value

\* C10, as claimed: voting the value already stored leaves the votes as
\* they are and is answered with the 'recorded' acknowledgment.
C10_SameVoteRecorded ==
  [][\A u \in Voters :
       SameVoteStep(u) =>
         /\ pollsDb' = pollsDb
         /\ voteReply' = [to |-> u, kind |-> "recorded",
                          poll |-> voteH[u].poll]]_vars

\* C10, amended: voting the value already stored leaves the votes as they
\* are, issues no save, and is answered with the 'already voted' notice,
\* which is neither the 'recorded' nor the 'changed' acknowledgment nor
\* the error reply.
C10_SameVoteAlready ==
  [][\A u \in Voters :
       SameVoteStep(u) =>
         /\ pollsDb' = pollsDb
         /\ accepted' = accepted
         /\ acks' = acks
         /\ voteH'[u].pc = "idle"
         /\ voteReply' = [to |-> u, kind |-> "already",
                          poll |-> voteH[u].poll]]_vars

C10_Witness ==
  /\ voteReply.kind = "already"
  /\ \E i \in DOMAIN pollsDb : votesHas(pollsDb[i].votes, voteReply.to)

\* A step in which invocation i of endPoll has sent its result embed.
SendStep(i) ==
  /\ i \in DOMAIN tasks
  /\ tasks[i].pc = "send"
  /\ tasks' = [tasks EXCEPT ![i].pc = "delete"]

\* A step in which invocation i of endPoll returns (not a crash).
ReturnStep(i) ==
  /\ i \in DOMAIN tasks
  /\ tasks' = RemoveAt(tasks, i)
  /\ phase' = phase

\* C11: an endPoll that tallies no vote goes the way of any other: its
\* result says 'No votes were cast.' in place of an average, with a count
\* of 0 for every option and no division made, the invocation goes on to
\* Poll.deleteOne, and the delete the store takes leaves the poll out of it.
C11_ZeroVotesResolve ==
  [][\A i \in DOMAIN tasks :
       tasks[i].doc.votes = NoVotes =>
         LET p == tasks[i].doc.messageId
         IN /\ SendStep(i) =>
                 /\ Len(announced'[p]) = Len(announced[p]) + 1
                 /\ LET a == announced'[p][Len(announced'[p])]
                    IN /\ a.average = [cast |-> FALSE, hundredths |-> 0]
                       /\ a.tally.totalVotes = 0
                       /\ \A l \in Labels : a.tally.results[l] = 0
            /\ (ReturnStep(i) /\ tasks[i].pc = "delete"
                  /\ pollsDb' # pollsDb) => ~InDb(pollsDb', p)]_vars

C11_Witness ==
  \E p \in PollIds : \E i \in DOMAIN announced[p] :
     /\ announced[p][i].stored = NoVotes
     /\ announced[p][i].votes = NoVotes
     /\ ~announced[p][i].average.cast
     /\ ~InDb(pollsDb, p)

\* The sum of the per-option counts of a result.
RECURSIVE SumCounts(_, _)
SumCounts(results, S) ==
  IF S = {} THEN 0
  ELSE LET l == CHOOSE x \in S : TRUE
       IN results[l] + SumCounts(results, S \ {l})

\* C12: in every announced result the per-option counts add up to the
\* total number of votes, which is the number of voters with an entry in
\* the votes that were tallied.
C12_CountsSumToTotal ==
  \A p \in PollIds : \A i \in DOMAIN announced[p] :
     LET a == announced[p][i]
     IN /\ a.tally.totalVotes = Cardinality(DOMAIN a.votes)
        /\ SumCounts(a.tally.results, Labels) = a.tally.totalVotes

\* A step in which endPoll is entered for poll p and the fetch of its
\* channel or message throws: the catch logs and endPoll returns.
FetchThrewStep(p) ==
  /\ tasks' = tasks
  /\ phase' = phase
  /\ \/ \E i \in DOMAIN timers :
          timers' = RemoveAt(timers, i) /\ timers[i].doc.messageId = p
     \/ /\ endCmds' = endCmds + 1
        /\ cmdReply' = [cmd |-> "endpoll", kind |-> "ended", poll |-> p]
     \/ p \in recExpired' \ recExpired

\* A step in which an endPoll for poll p that fetched no channel or message
\* returns.
UnlocatedReturnStep(p) ==
  \E i \in DOMAIN tasks :
     /\ ReturnStep(i)
     /\ ~tasks[i].located
     /\ tasks[i].doc.messageId = p

\* C13: when endPoll cannot locate the poll's channel or message, the poll
\* is nevertheless resolved: once that endPoll has returned, the poll is no
\* longer in the store.
C13_UnlocatedStillResolved ==
  [][\A p \in PollIds :
       (FetchThrewStep(p) \/ UnlocatedReturnStep(p)) => ~InDb(pollsDb', p)]_vars

Resolving(p) == \E i \in DOMAIN tasks : tasks[i].doc.messageId = p

\* A timer for poll p's end time is pending.
HasCountdown(p) ==
  \E i \in DOMAIN timers :
     /\ timers[i].doc.messageId = p
     /\ timers[i].at = findOneByMessage(pollsDb, p).endTime

\* C15: once startup recovery is over, a poll that is still in the store
\* and for which this process armed a countdown has that countdown pending
\* (or an endPoll under way): a resolution attempt that failed does not
\* leave the poll without one.
C15_ActivePollHasCountdown ==
  phase \in {"login", "ready"} =>
    \A p \in PollIds :
       (InDb(pollsDb, p) /\ armed[p] > 0 /\ ~Resolving(p)) => HasCountdown(p)

\* C16: a start of the process in which the store connection is
\* established runs recovery over every stored poll, whether or not the
\* store holds a settings document.
C16_RecoveryOnEveryStart ==
  [][(Start(TRUE) /\ pollsDb # << >>) =>
       (phase' = "recovering" /\ recQueue' = pollsDb)]_vars

\* ------------------------------------------------- the process stays up
\* The steps of a process that is started once and never dies.
NextUp ==
  \/ \E ok \in BOOLEAN : Start(ok)
  \/ \E outcome \in FetchOutcomes : RecoverStep(outcome)
  \/ Login
  \/ Tick
  \/ \E ch \in Channels, title \in Titles : PollCmd(ch, title)
  \/ \E id \in PollIds, dbOk \in BOOLEAN, pinOk \in BOOLEAN :
        PollSave(id, dbOk, pinOk)
  \/ \E i \in 1..MaxPolls, outcome \in FetchOutcomes : TimerFire(i, outcome)
  \/ \E ch \in Channels, dbOk \in BOOLEAN, outcome \in FetchOutcomes :
        EndPollCmd(ch, dbOk, outcome)
  \/ \E i \in 1..MaxTasks, ok \in BOOLEAN : EndPollSend(i, ok)
  \/ \E i \in 1..MaxTasks, ok \in BOOLEAN : EndPollDelete(i, ok)
  \/ \E u \in Voters, msg \in PollIds, parts \in CustomIds :
        VoteArrive(u, msg, parts)
  \/ \E u \in Voters, dbOk \in BOOLEAN : VoteFind(u, dbOk)
  \/ \E u \in Voters, dbOk \in BOOLEAN : VoteSave(u, dbOk)

\* The event loop runs every callback that is due and every promise
\* settles; the clock advances. What users send is not forced.
Fairness ==
  /\ WF_vars(\E ok \in BOOLEAN : Start(ok))
  /\ WF_vars(\E outcome \in FetchOutcomes : RecoverStep(outcome))
  /\ WF_vars(Login)
  /\ WF_vars(Tick)
  /\ WF_vars(\E id \in PollIds, dbOk \in BOOLEAN, pinOk \in BOOLEAN :
                PollSave(id, dbOk, pinOk))
  /\ WF_vars(\E i \in 1..MaxPolls, outcome \in FetchOutcomes :
                TimerFire(i, outcome))
  /\ WF_vars(\E i \in 1..MaxTasks, ok \in BOOLEAN : EndPollSend(i, ok))
  /\ WF_vars(\E i \in 1..MaxTasks, ok \in BOOLEAN : EndPollDelete(i, ok))
  /\ WF_vars(\E u \in Voters, dbOk \in BOOLEAN : VoteFind(u, dbOk))
  /\ WF_vars(\E u \in Voters, dbOk \in BOOLEAN : VoteSave(u, dbOk))

SpecUp == Init /\ [][NextUp]_vars /\ Fairness

\* C17: while the process stays up, every poll in the store is eventually
\* resolved: its result is announced and it is no longer in the store.
C17_EveryPollResolved ==
  \A p \in PollIds :
     InDb(pollsDb, p) ~> (announced[p] # << >> /\ ~InDb(pollsDb, p))

\* A step in which !poll with a title sends the message of poll id.
PollSentStep(id) ==
  /\ creating[id].pc = "idle"
  /\ creating'[id].pc = "save"

\* A step in which the !poll handler of poll id ends with its 'created'
\* reply.
PollCreatedStep(id) ==
  /\ creating[id].pc = "save"
  /\ creating'[id].pc = "idle"
  /\ cmdReply' = [cmd |-> "poll", kind |-> "created", poll |-> id]

\* The documents of a collection with the given messageId.
DocsOf(coll, id) == {i \in DOMAIN coll : coll[i].messageId = id}

\* C18: a successful !poll <title> adds exactly one record to the store:
\* it is keyed by the id of the poll message, has the title given, no
\* votes, the end time fixed when the command was handled plus 3 days, and
\* takes a vote of any voter at any time before that end time.
C18_PollCreated ==
  [][\A id \in PollIds :
       /\ PollSentStep(id) =>
            /\ creating'[id].doc.messageId = id
            /\ creating'[id].doc.title \in Titles \ {""}
            /\ creating'[id].doc.channelId \in Channels
            /\ creating'[id].doc.endTime = now + PollDays
            /\ creating'[id].doc.votes = NoVotes
            /\ ~InDb(pollsDb, id)
       /\ PollCreatedStep(id) =>
            /\ pollsDb' = Append(pollsDb, creating[id].doc)
            /\ Cardinality(DocsOf(pollsDb', id)) = 1
            /\ \A u \in Voters, v \in ScaleValues :
                 \A t \in 0..(creating[id].doc.endTime - 1) :
                    voteOutcome(findOneByMessage(pollsDb', id), u, v, t)
                      = "recorded"]_vars

C18_Witness ==
  /\ cmdReply = [cmd |-> "poll", kind |-> "created", poll |-> 1]
  /\ InDb(pollsDb, 1)
  /\ findOneByMessage(pollsDb, 1).endTime > now

\* C19: the end time and the title of a stored poll never change: whatever
\* step is taken (a vote, recovery, a command, endPoll), a poll that is in
\* the store before and after it has the same end time and title.
C19_EndTimeAndTitleFixed ==
  [][\A i \in DOMAIN pollsDb : \A j \in DOMAIN pollsDb' :
       pollsDb[i].messageId = pollsDb'[j].messageId =>
         /\ pollsDb'[j].endTime = pollsDb[i].endTime
         /\ pollsDb'[j].title = pollsDb[i].title
         /\ pollsDb'[j].channelId = pollsDb[i].channelId]_vars

C19_Witness ==
  /\ phase = "ready"
  /\ crashes > 0
  /\ \E i \in DOMAIN pollsDb :
        /\ pollsDb[i].votes # NoVotes
        /\ armed[pollsDb[i].messageId] = 1
        /\ pollsDb[i].endTime = PollDays
        /\ pollsDb[i].title = "book"

\* ------------------------------------------------ the settings commands
\* The process with the commands on the reading point and the meeting.
NextSettings ==
  \/ \E ok \in BOOLEAN : Start(ok)
  \/ \E outcome \in FetchOutcomes : RecoverStep(outcome)
  \/ Login
  \/ Crash
  \/ \E args \in PointArgs : SetPointCmd(args)
  \/ \E args \in MeetingArgs, shift \in ZoneShifts : SetMeetingCmd(args, shift)
  \/ \E k \in 1..MaxSetCmds, ok \in BOOLEAN : SetMeetingEvent(k, ok)
  \/ CurrentPointCmd
  \/ NextMeetingCmd
  \/ ClearPointCmd
  \/ ClearEventCmd
  \/ \E k \in 1..MaxSetCmds, ok \in BOOLEAN : ClearEventDelete(k, ok)
  \/ \E k \in 1..MaxSetCmds, dbOk \in BOOLEAN : SaveStorageStep(k, dbOk)

SpecSettings == Init /\ [][NextSettings]_vars

\* ------------------------------------------------- parseMeetingDateTime
\* The process up with nothing stored.
InitUp ==
  /\ phase = "ready"
  /\ settingsDoc \in BOOLEAN
  /\ pollsDb = << >>
  /\ nextId = 1
  /\ timers = << >>
  /\ tasks = << >>
  /\ recQueue = << >>
  /\ creating = [p \in PollIds |-> IdleCreate]
  /\ voteH = [u \in Voters |-> IdleHandler]
  /\ announced = [p \in PollIds |-> << >>]
  /\ accepted = [p \in PollIds |-> NoVotes]
  /\ acks = {}
  /\ writes = {}
  /\ voteReply = NoVoteReply
  /\ cmdReply = NoCmdReply
  /\ recExpired = {}
  /\ armed = [p \in PollIds |-> 0]
  /\ crashes = 0
  /\ votesIssued = 0
  /\ endCmds = 0
  /\ settingsData = DefaultStorage
  /\ currentPoint = "null"
  /\ meetingInfo = NoMeeting
  /\ storage = DefaultStorage
  /\ cmdLog = << >>
  /\ nextEvent = 1

\* The process up with nothing stored, at any reading of the clock.
InitParse ==
  /\ now \in 0..MaxTime
  /\ InitUp
  /\ InitOps

\* !setmeeting on argument lists of every form, the texts read in any zone.
NextParse ==
  \E args \in ParseArgs, shift \in ZoneShifts : SetMeetingCmd(args, shift)

SpecParse == InitParse /\ [][NextParse]_vars

\* The input of a logged command is invalid: no argument, or a !setmeeting
\* date that does not parse.
InvalidInput(c) ==
  \/ Len(c.args) = 0
  \/ /\ c.cmd = "setmeeting"
     /\ LET sp == splitMeetingArgs(c.args)
        IN ~parseMeetingDateTime(sp.dateStr, sp.timeStr, 0, 0).isValid

\* C20: a !setpoint or !setmeeting with invalid input is answered with a
\* reply in the step that handles it, and that step changes neither the
\* settings in memory nor anything in the store.
C20_InvalidInputAnswered ==
  [][Len(cmdLog') = Len(cmdLog) + 1 =>
       LET c == cmdLog'[Len(cmdLog')]
       IN InvalidInput(c) =>
            /\ c.pc = "done"
            /\ c.reply # "none"
            /\ UNCHANGED <<currentPoint, meetingInfo, storage, settingsData,
                           settingsDoc, pollsDb>>]_vars

\* C21: !endpoll in a channel with no stored poll, the lookup answered, is
\* replied to with 'No active poll found' and changes nothing: no endPoll
\* is started, nothing is announced, nothing is deleted, no timer is
\* touched.
C21_EndPollNotFound ==
  [][\A ch \in Channels, outcome \in FetchOutcomes :
       (EndPollCmd(ch, TRUE, outcome)
          /\ \A i \in DOMAIN pollsDb : pollsDb[i].channelId # ch) =>
         /\ cmdReply' = [cmd |-> "endpoll", kind |-> "notfound", poll |-> 0]
         /\ UNCHANGED <<pollsDb, announced, tasks, timers, accepted>>]_vars

C21_Witness ==
  /\ cmdReply = [cmd |-> "endpoll", kind |-> "notfound", poll |-> 0]
  /\ pollsDb # << >>
  /\ \A p \in PollIds : announced[p] = << >>

\* The replies of !setmeeting that report a success.
SuccessReplies == {"set", "set+event"}

\* C22: a !setmeeting with a valid future date whose event could not be
\* created is answered, once the meeting is saved, with a reply that is not
\* one of the success replies: it says the event could not be created.
C22_EventFailureReported ==
  \A k \in DOMAIN cmdLog :
     (cmdLog[k].cmd = "setmeeting" /\ cmdLog[k].pc = "done"
        /\ cmdLog[k].day # NaN /\ cmdLog[k].event = "null")
       => cmdLog[k].reply \notin SuccessReplies \cup {"none"}

\* The replies that report a mutation of the settings as done.
DoneReplies ==
  SuccessReplies \cup {"updated", "pointCleared", "meetingCleared"}

\* C23: when the write of the settings to the store fails, the reply that
\* follows is not one that reports the mutation as done.
C23_FailedWriteReported ==
  [][\A k \in 1..MaxSetCmds :
       SaveStorageStep(k, FALSE) => cmdLog'[k].reply \notin DoneReplies]_vars

\* C24: what a reading command shows is in the store: the reading point a
\* !currentpoint replies with is the stored one, the instant a !nextmeeting
\* replies with is the stored one, also while another command is suspended.
C24_ShownIsStored ==
  [][Len(cmdLog') = Len(cmdLog) + 1 =>
       LET c == cmdLog'[Len(cmdLog')]
       IN /\ c.cmd = "currentpoint" => c.shown = settingsData.readingPoint
          /\ c.cmd = "nextmeeting" =>
               c.shown = settingsData.meetingInfo.isoDate]_vars

\* The eventId that was in memory when command k arrived (the log keeps
\* storage as it was at that moment until the handler calls saveStorage).
EventIdOnArrival(k) == cmdLog[k].saving.meetingInfo.eventId

\* C25: a !setmeeting whose event could not be created does not hand to
\* the store the id of an event that was already in memory when the
\* command arrived, so the eventId stored with the new meeting is the
\* command's own or null; and what a !clearevent writes has every meeting
\* field null, whatever became of the event.
C25_StoredEventIdIsOwn ==
  [][\A k \in 1..MaxSetCmds :
       /\ (SetMeetingEvent(k, FALSE) /\ EventIdOnArrival(k) # "null") =>
            cmdLog'[k].saving.meetingInfo.eventId # EventIdOnArrival(k)
       /\ (SaveStorageStep(k, TRUE) /\ cmdLog[k].cmd = "clearevent") =>
            cmdLog[k].saving.meetingInfo = NoMeeting]_vars

\* The text parseMeetingDateTime was given by a logged !setmeeting.
combinedOf(c) == c.split.dateStr \o c.split.timeStr

\* No format of the list reads the text.
matchesNoFormat(text) ==
  \A i \in DOMAIN formats : classesOf(text) # formats[i]

\* A logged !setmeeting that called parseMeetingDateTime.
Parsed(c) == c.cmd = "setmeeting" /\ Len(c.args) > 0

\* C26: when no format reads the text, what parseMeetingDateTime returns is
\* valid only if it is an instant after the clock's reading then: a
\* natural-language result in the past comes back invalid.
C26_NaturalOnlyIfFuture ==
  \A k \in DOMAIN cmdLog :
     (Parsed(cmdLog[k]) /\ matchesNoFormat(combinedOf(cmdLog[k]))
        /\ cmdLog[k].parsed.isValid)
       => before(DateTimeNow(cmdLog[k].at), cmdLog[k].parsed)

\* The year typed in a text, 0 when it has none.
typedYear(text) == sumOf(text, "year")

\* C27: what parseMeetingDateTime returns has the typed year whenever the
\* text has a year of four digits, whatever the year; and when the text has
\* none, it is in the year after the current one exactly when the instant
\* in the current year is before the clock's reading, and in the current
\* year otherwise.
C27_RollForwardIffNoYear ==
  \A k \in DOMAIN cmdLog :
     LET c == cmdLog[k]
         nowDT == DateTimeNow(c.at)
     IN (Parsed(c) /\ c.parsed.isValid) =>
          IF typedYear(combinedOf(c)) # 0
            THEN c.parsed.year = typedYear(combinedOf(c))
            ELSE IF before([c.parsed EXCEPT !.year = nowDT.year], nowDT)
                   THEN c.parsed.year = nowDT.year + 1
                   ELSE c.parsed.year = nowDT.year

\* C28: what parseMeetingDateTime returns is at 19:00 exactly when it was
\* given no timeStr, and at the time timeStr names when it was given one.
C28_DefaultOrSuppliedTime ==
  \A k \in DOMAIN cmdLog :
     LET c == cmdLog[k]
     IN (Parsed(c) /\ c.parsed.isValid) =>
          IF c.split.timeStr = << >>
            THEN c.parsed.minutes = DefaultHour * 60
            ELSE c.parsed.minutes = sumOf(combinedOf(c), "minutes")

\* Neither a format nor new Date reads the text.
Unreadable(text) ==
  matchesNoFormat(text) /\ classesOf(text) \notin naturalForms

\* The step is the arrival of a !setmeeting with arguments, logged last.
SetMeetingArrives ==
  /\ Len(cmdLog') = Len(cmdLog) + 1
  /\ Parsed(cmdLog'[Len(cmdLog')])

\* C29: parseMeetingDateTime returns an invalid DateTime for a text that
\* neither a format nor new Date reads; a !setmeeting whose result is
\* invalid is answered 'Could not understand that date/time', one whose
\* result is valid but not after now 'Please set a meeting time in the
\* future', and neither step changes the meeting in memory or in the store
\* or leaves anything to be saved.
C29_InvalidAndPastDistinct ==
  [][SetMeetingArrives =>
       LET c == cmdLog'[Len(cmdLog')]
           nowDT == DateTimeNow(now)
       IN /\ Unreadable(combinedOf(c)) => ~c.parsed.isValid
          /\ ~c.parsed.isValid =>
               /\ c.reply = "invalid" /\ c.pc = "done"
               /\ UNCHANGED <<meetingInfo, storage, settingsData>>
          /\ (c.parsed.isValid /\ ~before(nowDT, c.parsed)) =>
               /\ c.reply = "past" /\ c.pc = "done"
               /\ UNCHANGED <<meetingInfo, storage, settingsData>>]_vars

C29_Witness ==
  \E j, k \in DOMAIN cmdLog :
     /\ Parsed(cmdLog[j]) /\ cmdLog[j].reply = "invalid"
     /\ Unreadable(combinedOf(cmdLog[j]))
     /\ Parsed(cmdLog[k]) /\ cmdLog[k].reply = "past"
     /\ cmdLog[k].parsed.isValid
     /\ meetingInfo = NoMeeting /\ settingsData = DefaultStorage

\* The last token of a nonempty list.
lastArg(args) == args[Len(args)]

\* C30 as stated, for lists of every length: a last token that looks like
\* a time is the timeStr and is not part of the dateStr; any other list is
\* the dateStr as a whole, with no timeStr.
C30_TrailingTimeAnyLength ==
  \A k \in DOMAIN cmdLog :
     LET c == cmdLog[k]
     IN Parsed(c) =>
          IF isTimeArg(lastArg(c.args))
            THEN /\ c.split.timeStr = <<lastArg(c.args)>>
                 /\ c.split.dateStr = SubSeq(c.args, 1, Len(c.args) - 1)
            ELSE /\ c.split.timeStr = << >>
                 /\ c.split.dateStr = c.args

\* C30, amended: in a list of two or more tokens a last token that looks
\* like a time is the timeStr and is not part of the dateStr; any other
\* list, and every list of one token, is the dateStr as a whole, with no
\* timeStr.
C30_TrailingTimeOfTwoOrMore ==
  \A k \in DOMAIN cmdLog :
     LET c == cmdLog[k]
     IN Parsed(c) =>
          IF Len(c.args) >= 2 /\ isTimeArg(lastArg(c.args))
            THEN /\ c.split.timeStr = <<lastArg(c.args)>>
                 /\ c.split.dateStr = SubSeq(c.args, 1, Len(c.args) - 1)
            ELSE /\ c.split.timeStr = << >>
                 /\ c.split.dateStr = c.args

C30_Witness ==
  \E j, k \in DOMAIN cmdLog :
     /\ Parsed(cmdLog[j]) /\ Len(cmdLog[j].args) = 1
     /\ isTimeArg(lastArg(cmdLog[j].args))
     /\ cmdLog[j].split.timeStr = << >>
     /\ Parsed(cmdLog[k]) /\ Len(cmdLog[k].args) >= 2
     /\ cmdLog[k].split.timeStr # << >>

\* ------------------------------------------------ category restriction
\* Everything but the login loop, the monitor, the restriction and the
\* sheet reader.
coreVars == <<now, phase, settingsDoc, crashes, settingsMem, pollVars>>

MaxMessages == 2    \* messages delivered

\* A message as the messageCreate handler looks at it: whether its author
\* is a bot, whether its content starts with PREFIX, whether it has a guild,
\* the ids in message.guild.channels.cache and message.channel.parentId.
Messages ==
  {m \in [bot : BOOLEAN, prefixed : BOOLEAN, inGuild : BOOLEAN,
          guildChannels : {{}, {"cat2"}, {"cat1", "cat2"}},
          parentId : {"null", "cat1", "cat2"}] :
     ~m.inGuild => (m.guildChannels = {} /\ m.parentId = "null")}

\* The restriction, were it enforced whether or not the guild has the
\* category.
restrictedAnyGuild(cid, m) ==
  /\ cid # "" /\ m.inGuild
  /\ m.parentId # cid

\* The command is dropped by the category restriction: a category is
\* configured, the message has a guild, the guild's channel cache has the
\* category, and the channel's parent is not it.
restricted(cid, m) ==
  /\ cid # "" /\ m.inGuild
  /\ cid \in m.guildChannels
  /\ m.parentId # cid

\* What the head of the messageCreate handler makes of a message.
messageFate(cid, m) ==
  IF m.bot THEN "bot"
  ELSE IF ~m.prefixed THEN "noncommand"
  ELSE IF restricted(cid, m) THEN "restricted"
  ELSE "processed"

\* A message is delivered and the head of the handler runs.
MessageCreate(m) ==
  /\ phase = "ready"
  /\ Len(gateLog) < MaxMessages
  /\ gateLog' = Append(gateLog,
        [message |-> m, fate |-> messageFate(categoryId, m)])
  /\ UNCHANGED <<coreVars, loginLoop, uptimeMonitor, heartbeats, categoryId,
                 sheetLog>>

\* The process up, DISCORD_CATEGORY_ID set or not.
InitGate ==
  /\ now = 0
  /\ InitUp
  /\ loginLoop = NoLogin
  /\ uptimeMonitor = newMonitor(FALSE)
  /\ heartbeats = [inFlight |-> 0, sent |-> 0]
  /\ categoryId \in {"", "cat1"}
  /\ gateLog = << >>
  /\ sheetLog = << >>

NextGate == \E m \in Messages : MessageCreate(m)

SpecGate == InitGate /\ [][NextGate]_vars

\* C31: a message is dropped by the category restriction only when the
\* configured category is among the channels of the message's guild and
\* the message's channel is not under it; a command in a guild that does
\* not have the configured category, or with no category configured, is
\* processed.
C31_RestrictionFailOpen ==
  \A k \in DOMAIN gateLog :
     LET m == gateLog[k].message
     IN /\ gateLog[k].fate = "restricted" =>
             /\ categoryId # ""
             /\ categoryId \in m.guildChannels
             /\ m.parentId # categoryId
        /\ (~m.bot /\ m.prefixed
              /\ (categoryId = "" \/ categoryId \notin m.guildChannels)) =>
             gateLog[k].fate = "processed"

C31_Witness ==
  \E j, k \in DOMAIN gateLog :
     /\ categoryId = "cat1"
     /\ gateLog[j].message.inGuild
     /\ gateLog[j].message.guildChannels = {"cat2"}
     /\ gateLog[j].message.parentId = "cat2"
     /\ gateLog[j].fate = "processed"
     /\ gateLog[k].fate = "restricted"

\* --------------------------------------------------------- getSheetData
MaxSheetCalls == 2  \* calls of getSheetData

\* A cell of a row of the table: null, or an object with v, with f only,
\* or with neither ("undefined" for a property that is not there).
NullCell == [isNull |-> TRUE, v |-> "undefined", f |-> "undefined"]
TitleCell == [isNull |-> FALSE, v |-> "Dune", f |-> "undefined"]
FormattedCell == [isNull |-> FALSE, v |-> "undefined", f |-> "4.5"]
BareCell == [isNull |-> FALSE, v |-> "undefined", f |-> "undefined"]

\* A row with its cells, and a row without the property c.
BookRow == [hasC |-> TRUE, c |-> <<TitleCell, NullCell, FormattedCell, BareCell>>]
NoCellsRow == [hasC |-> FALSE, c |-> << >>]

\* What the text of the response is: shorter than 50 characters, not JSON
\* once unwrapped, JSON null, an object without table, a table without
\* rows, rows that are no array, or a table with rows.
Bodies ==
  {[kind |-> k, rows |-> << >>] :
     k \in {"short", "unparseable", "null", "noTable", "noRows",
            "rowsNotArray"}}
  \cup {[kind |-> "rows", rows |-> r] :
          r \in {<< >>, <<NoCellsRow>>, <<BookRow>>, <<BookRow, NoCellsRow>>}}

\* What fetch(publicUrl) does: it rejects, or it answers with a status that
\* is ok or not and a body.
Replies ==
  {[fetch |-> "throws", ok |-> FALSE, body |-> [kind |-> "short", rows |-> << >>]]}
  \cup [fetch : {"answers"}, ok : BOOLEAN, body : Bodies]

\* getSampleData()
getSampleData ==
  << <<"Title", "Author", "Status", "Link", "Rating">>,
     <<"The Current Book", "Current Author", "currently reading", "", "">>,
     <<"Future Book Option 1", "Author One", "future option", "", "">>,
     <<"Future Book Option 2", "Author Two", "future option", "", "">>,
     <<"Completed Book", "Past Author", "finished", "", "4.5">> >>

\* cell => value
cellValue(cell) ==
  IF cell.isNull THEN ""
  ELSE IF cell.v # "undefined" THEN cell.v
  ELSE IF cell.f # "undefined" THEN cell.f
  ELSE ""

\* row => row.c ? row.c.map(...) : []
rowValues(row) ==
  IF ~row.hasC THEN << >>
  ELSE [i \in DOMAIN row.c |-> cellValue(row.c[i])]

\* rows.map(...).filter(row => row.length > 0)
RECURSIVE sheetValues(_)
sheetValues(rows) ==
  IF rows = << >> THEN << >>
  ELSE IF Len(rowValues(Head(rows))) > 0
         THEN <<rowValues(Head(rows))>> \o sheetValues(Tail(rows))
         ELSE sheetValues(Tail(rows))

\* The outcome of a call: a value returned, or an exception.
Returned(value) == [threw |-> FALSE, value |-> value]
Threw == [threw |-> TRUE, value |-> << >>]

\* The body of the try of getSheetData.
fetchSheet(reply) ==
  IF reply.fetch = "throws" THEN Threw
  ELSE IF ~reply.ok THEN Threw
  ELSE IF reply.body.kind = "short" THEN Threw
  ELSE IF reply.body.kind = "unparseable" THEN Threw
  ELSE IF reply.body.kind = "null" THEN Threw
  ELSE IF reply.body.kind \in {"noTable", "noRows"} THEN Threw
  ELSE IF reply.body.kind = "rowsNotArray" THEN Threw
  ELSE IF Len(sheetValues(reply.body.rows)) = 0
         THEN Returned(getSampleData)
  ELSE Returned(sheetValues(reply.body.rows))

\* getSheetData without its catch.
getSheetDataNoCatch(reply) == fetchSheet(reply)

\* getSheetData: whatever the try throws is caught and answered with the
\* sample data.
getSheetData(reply) ==
  IF fetchSheet(reply).threw THEN Returned(getSampleData)
  ELSE fetchSheet(reply)

\* A command that reads the sheet (!reading, !random, !pastreads) calls
\* getSheetData and the call settles.
GetSheetData(reply) ==
  /\ phase = "ready"
  /\ Len(sheetLog) < MaxSheetCalls
  /\ sheetLog' = Append(sheetLog,
        [reply |-> reply, result |-> getSheetData(reply)])
  /\ UNCHANGED <<coreVars, loginLoop, uptimeMonitor, heartbeats, categoryId,
                 gateLog>>

InitSheet ==
  /\ now = 0
  /\ InitUp
  /\ InitOps

NextSheet == \E reply \in Replies : GetSheetData(reply)

SpecSheet == InitSheet /\ [][NextSheet]_vars

\* The failures C32 lists: a fetch error, a status that is not ok, a body
\* that is too short or does not parse, no table structure, zero rows.
SheetFailure(reply) ==
  \/ reply.fetch = "throws"
  \/ ~reply.ok
  \/ reply.body.kind \in {"short", "unparseable", "noTable", "noRows"}
  \/ reply.body.kind = "rows" /\ reply.body.rows = << >>

\* C32: no call of getSheetData ends in an exception, on each of the listed
\* failures it returns the sample data, and the first row of the sample
\* data is the header.
C32_SheetNeverThrows ==
  \A k \in DOMAIN sheetLog :
     /\ ~sheetLog[k].result.threw
     /\ SheetFailure(sheetLog[k].reply) =>
          /\ sheetLog[k].result.value = getSampleData
          /\ sheetLog[k].result.value[1] =
               <<"Title", "Author", "Status", "Link", "Rating">>

C32_Witness ==
  \E j, k \in DOMAIN sheetLog :
     /\ sheetLog[j].reply.fetch = "answers" /\ sheetLog[j].reply.ok
     /\ sheetLog[j].reply.body.kind = "unparseable"
     /\ sheetLog[j].result = Returned(getSampleData)
     /\ sheetLog[k].reply.fetch = "throws"
     /\ sheetLog[k].result = Returned(getSampleData)

\* C33: every vote acknowledged to its voter as recorded or changed is in
\* the aggregate announced for its poll, whether it was acknowledged before
\* the announcement or while the poll was still being resolved.
C33_AckedVotesAnnounced ==
  \A p \in PollIds : \A i \in DOMAIN announced[p] : \A a \in acks :
     a.poll = p => votesHas(announced[p][i].votes, a.voter)

\* !endpoll sends its reply 'has been manually ended' in this step.
EndedReplyStep ==
  /\ cmdReply' # cmdReply
  /\ cmdReply'.cmd = "endpoll"
  /\ cmdReply'.kind = "ended"

\* C34: when !endpoll replies that the poll has been manually ended, the
\* poll's result has been announced and the poll is no longer in the store.
C34_EndedMeansResolved ==
  [][EndedReplyStep =>
       /\ announced'[cmdReply'.poll] # << >>
       /\ \A i \in DOMAIN pollsDb' :
            pollsDb'[i].messageId # cmdReply'.poll]_vars

\* The !poll handler of poll id sends its last reply in this step.
PollRepliedStep(id) ==
  /\ creating[id].pc = "save"
  /\ creating'[id].pc = "idle"
  /\ cmdReply'.cmd = "poll" /\ cmdReply'.poll = id

\* C35: when !poll replies 'there was an error creating the poll', the poll
\* is not in the store and no timer was set for it; when the poll was saved
\* and its timer set, the reply says that the poll was created.
C35_ErrorMeansNoPoll ==
  [][\A id \in PollIds :
       PollRepliedStep(id) =>
         /\ cmdReply'.kind = "error" =>
              /\ \A i \in DOMAIN pollsDb' : pollsDb'[i].messageId # id
              /\ armed'[id] = 0
         /\ ((\E i \in DOMAIN pollsDb' : pollsDb'[i].messageId = id)
               /\ armed'[id] > 0) =>
              cmdReply'.kind = "created"]_vars

\* ------------------------------------------- login loop and heartbeats
maxLoginRetries == 10
baseRetryDelayMs == 5000
maxFails == 3
MaxBeats == 5       \* heartbeat requests made
MaxInFlight == 2    \* sendHeartbeat calls awaiting fetch at one time

\* The wait after each failed attempt, were it always the base delay.
retryDelayFlat(retryCount) == baseRetryDelayMs

\* baseRetryDelayMs * Math.pow(2, retryCount - 1)
retryDelay(retryCount) == baseRetryDelayMs * 2 ^ (retryCount - 1)

\* One turn of while (retryCount < maxLoginRetries): client.login raced
\* with the 60 second timeout settles. On success the loop is left and the
\* client becomes ready; on a rejection or the timeout retryCount is
\* incremented and the loop waits, or after the last attempt calls
\* process.exit(1).
LoginAttempt(outcome) ==
  /\ phase = "login"
  /\ loginLoop.pc = "try"
  /\ loginLoop.retryCount < maxLoginRetries
  /\ IF outcome = "ok"
       THEN /\ loginLoop' = [loginLoop EXCEPT !.pc = "done"]
            /\ phase' = "ready"
       ELSE IF loginLoop.retryCount + 1 < maxLoginRetries
       THEN /\ loginLoop' = [retryCount |-> loginLoop.retryCount + 1,
                             pc |-> "wait",
                             delay |-> retryDelay(loginLoop.retryCount + 1)]
            /\ UNCHANGED phase
       ELSE /\ loginLoop' = [loginLoop EXCEPT
                               !.retryCount = loginLoop.retryCount + 1,
                               !.pc = "exited"]
            /\ phase' = "exited"
  /\ UNCHANGED <<now, settingsDoc, crashes, settingsMem, pollVars,
                 uptimeMonitor, heartbeats, categoryId, gateLog, sheetLog>>

LoginOutcomes == {"ok", "rejects", "timeout"}

\* await new Promise((resolve) => setTimeout(resolve, delay)) is over.
LoginWait ==
  /\ phase = "login"
  /\ loginLoop.pc = "wait"
  /\ loginLoop' = [loginLoop EXCEPT !.pc = "try"]
  /\ UNCHANGED <<coreVars, uptimeMonitor, heartbeats, categoryId, gateLog,
                 sheetLog>>

\* sendHeartbeat is called, by startHeartbeats or by its interval: when the
\* monitor is not enabled it returns false, otherwise fetch(heartbeatUrl)
\* is under way.
HeartbeatSend ==
  /\ phase = "ready"
  /\ uptimeMonitor.isEnabled
  /\ heartbeats.sent < MaxBeats
  /\ heartbeats.inFlight < MaxInFlight
  /\ heartbeats' = [inFlight |-> heartbeats.inFlight + 1,
                    sent |-> heartbeats.sent + 1]
  /\ UNCHANGED <<coreVars, loginLoop, uptimeMonitor, categoryId, gateLog,
                 sheetLog>>

HeartbeatOutcomes == {"ok", "notOk", "throws"}

\* The monitor after a fetch has settled: an ok response sets failCount to
\* 0, a response that is not ok increments it, a throw increments it and
\* disables the monitor when failCount has reached maxFails.
afterHeartbeat(m, outcome) ==
  CASE outcome = "ok" -> [m EXCEPT !.failCount = 0]
    [] outcome = "notOk" -> [m EXCEPT !.failCount = @ + 1]
    [] OTHER -> [isEnabled |-> IF m.failCount + 1 >= maxFails THEN FALSE
                               ELSE m.isEnabled,
                 failCount |-> m.failCount + 1]

\* The fetch of a sendHeartbeat settles.
HeartbeatSettle(outcome) ==
  /\ phase = "ready"
  /\ heartbeats.inFlight > 0
  /\ heartbeats' = [heartbeats EXCEPT !.inFlight = @ - 1]
  /\ uptimeMonitor' = afterHeartbeat(uptimeMonitor, outcome)
  /\ UNCHANGED <<coreVars, loginLoop, categoryId, gateLog, sheetLog>>

\* The process before initializeBot, with or without a heartbeat URL.
InitBoot ==
  /\ now = 0
  /\ InitDown
  /\ loginLoop = NoLogin
  /\ uptimeMonitor \in {newMonitor(configured) : configured \in BOOLEAN}
  /\ heartbeats = [inFlight |-> 0, sent |-> 0]
  /\ categoryId = ""
  /\ gateLog = << >>
  /\ sheetLog = << >>

NextBoot ==
  \/ \E ok \in BOOLEAN : Start(ok)
  \/ \E outcome \in FetchOutcomes : RecoverStep(outcome)
  \/ \E outcome \in LoginOutcomes : LoginAttempt(outcome)
  \/ LoginWait
  \/ HeartbeatSend
  \/ \E outcome \in HeartbeatOutcomes : HeartbeatSettle(outcome)

\* Every promise initializeBot awaits settles (the login is raced with a
\* timeout) and every timer it waits on fires.
FairBoot ==
  /\ WF_vars(\E ok \in BOOLEAN : Start(ok))
  /\ WF_vars(\E outcome \in FetchOutcomes : RecoverStep(outcome))
  /\ WF_vars(\E outcome \in LoginOutcomes : LoginAttempt(outcome))
  /\ WF_vars(LoginWait)

SpecBoot == InitBoot /\ [][NextBoot]_vars /\ FairBoot

\* C36: the login loop makes at most 10 attempts, waits 5000 * 2^(k-1) ms
\* after its k-th failure for k < 10, is left on the first success, ends
\* the process after the 10th failure, and is always left in one of these
\* two ways.
C36_LoginLoopTerminates ==
  /\ [](loginLoop.retryCount <= 10)
  /\ [](loginLoop.pc = "wait" =>
          /\ loginLoop.retryCount < 10
          /\ loginLoop.delay = 5000 * 2 ^ (loginLoop.retryCount - 1))
  /\ [](loginLoop.pc = "exited" <=> loginLoop.retryCount = 10)
  /\ [](loginLoop.pc = "exited" => phase = "exited")
  /\ [][LoginAttempt("ok") => (loginLoop'.pc = "done" /\ phase' = "ready")]_vars
  /\ [][loginLoop.pc \in {"done", "exited"} => loginLoop' = loginLoop]_vars
  /\ (phase = "login" ~> loginLoop.pc \in {"done", "exited"})

C36_Witness ==
  /\ loginLoop.pc = "done"
  /\ loginLoop.retryCount = 9
  /\ loginLoop.delay = 1280000
  /\ phase = "ready"

\* The fetch of a heartbeat settles with an ok response in this step.
HeartbeatOkStep == HeartbeatSettle("ok")

\* C38: the monitor is disabled once failCount has reached 3, whatever the
\* kind of the failures, so that failCount never exceeds 3 while it is
\* enabled; a request is made only while the monitor is enabled; and an ok
\* response sets failCount to 0.
C38_DisabledAfterThreeFailures ==
  /\ [](uptimeMonitor.isEnabled => uptimeMonitor.failCount < 3)
  /\ [][heartbeats'.sent > heartbeats.sent => uptimeMonitor.isEnabled]_vars
  /\ [][HeartbeatOkStep => uptimeMonitor'.failCount = 0]_vars

\* ------------------------------------------- two !setmeeting in flight
\* Command k is a !setmeeting whose createBookClubEvent call has failed.
eventFailed(k) ==
  /\ cmdLog[k].cmd = "setmeeting"
  /\ cmdLog[k].event = "null"
  /\ (cmdLog[k].pc = "save" \/ cmdLog[k].reply = "set")

\* Every command delivered was a !setmeeting, each has run to its end and
\* none of them failed to create its event.
MeetingsAllSet ==
  \A k \in DOMAIN cmdLog :
     /\ cmdLog[k].cmd = "setmeeting"
     /\ cmdLog[k].pc = "done"
     /\ ~eventFailed(k)

\* C37: once the !setmeeting commands have all finished, however their
\* handlers were interleaved while waiting for their events, the stored
\* eventId is the id of the event created for the stored isoDate: if the
\* store holds the event of command k it holds the instant of command k.
C37_StoredMeetingConsistent ==
  MeetingsAllSet =>
    \A k \in DOMAIN cmdLog :
       (/\ cmdLog[k].event # "null"
        /\ settingsData.meetingInfo.eventId = cmdLog[k].event)
         => settingsData.meetingInfo.isoDate = toISO(cmdLog[k].parsed)

====
